---- MODULE Spec2Model ----
(***************************************************************************)
(* Model of the image proxy's metadata cache (src/main.go): the LRUCache   *)
(* (hash map + intrusive doubly-linked list), the durable index (table     *)
(* "cache" of the SQLite database), the cache files on disk, and the       *)
(* tasks that work on them: request handlers, the periodic Sync and        *)
(* Cleanup loops, process restart and graceful shutdown.                   *)
(***************************************************************************)
EXTENDS Integers, Sequences, FiniteSets, TLC

(***************************************************************************)
(* Bounds of the model.                                                    *)
(***************************************************************************)
\* cacheConfig.MaxMemCacheEntries, scaled down
MaxEntries == 2
\* cacheConfig.MaxMemCacheSizeMB, in abstract size units
MaxSizeMB == 3
\* largest file size, in the same units
MaxSize == 2
\* length of the recorded call sequence of the LRUCache harness
MaxOps == 4
\* requests the proxy serves in one behaviour
MaxRequests == 3
\* last tick of the clock
MaxTime == 1
\* clock ticks per second: time.Time is finer than the second RFC3339 keeps
TicksPerSec == 2
\* process restarts in one behaviour
MaxBoots == 1
\* cacheConfig.CacheValidityMin, in ticks
CacheValidity == 0

\* different file contents the storage tiers are given
NumBlobs == 3
\* StorageConfig.MemoryMaxSize, in the size units of the blobs
MemoryMaxSize == 2
\* Store, Get and Delete calls on the StorageManager in one behaviour
MaxStorageOps == 3
\* query parameters in one proxy request
MaxQueryLen == 2
\* width and height of a source image, and of a requested box, in pixels
MaxDim == 3
\* admin toggles in a behaviour
MaxToggles == 2
\* the attempts of executeWithRetry and queryWithRetry: retries < 3
MaxAttempts == 3
\* the unit of their backoff, in milliseconds
BackoffMs == 100

NumKeys == MaxEntries + 1
Keys == 1..NumKeys
\* request handlers running at once
Workers == {"w1"}
\* the callers of syncToDB: the periodic loop and the shutdown handler
Syncers == {"ticker", "shutdown"}
\* CacheEntry objects alive at once: the resident ones, the one being put, one per task,
\* and the ones a snapshot of cleanupMemCache still points to
NumHandles == MaxEntries + 1 + Cardinality(Workers) + Cardinality(Syncers) + MaxEntries
Handles == 1..NumHandles
\* the nil pointer
NIL == 0
Sizes == 1..MaxSize

\* "" as a file path
NoPath == <<>>
\* getCacheFilePath(cacheKey, format): one file name per cache key (md5 of the key)
getCacheFilePath(key) == <<key, "img">>
\* the thumbnail's path, derived from the cache file's base name
thumbFilePath(key) == <<key, "thumb">>
Paths == {getCacheFilePath(k) : k \in Keys} \cup {thumbFilePath(k) : k \in Keys}

\* the size of the image the transform pipeline produces for a key's source
SourceSize(key) == IF key = 1 THEN 1 ELSE MaxSize
\* the format the transform pipeline produces for a key's source
FormatOf(key) == IF key % 2 = 0 THEN "gif" ELSE "webp"

VARIABLES
    lru,        \* the LRUCache: entries (map), node (heap of CacheEntry), head, tail, currentSize
    files,      \* the cache directory: path -> size of the file, 0 when there is no file
    now,        \* the wall clock, in ticks
    hist,       \* the calls made on the LRUCache by the harness, in order
    db,         \* table "cache" of the durable index: its rows in rowid order
    phase,      \* the process: "up", "draining", "stopping", "down", "booted"
    wk,         \* the request handlers: position and locals of each
    sy,         \* the runs of syncToDB: position and locals, per caller
    nreq,       \* requests started so far
    boots,      \* restarts so far
    atDrain,    \* the entries that were dirty when the in-flight requests had finished
    cl,         \* cleanupMemCache's tick: position and locals
    sm,         \* the StorageManager: its backends, what each holds, its asynchronous tasks
    px,         \* handleImageProxy: the last request and the cache key derived for it
    tf,         \* handleImageProxy on a miss: the last fetch and transform, and its response
    rz,         \* resizeImage: a call and its result
    adm,        \* useMemCache and the background loops the process has started
    rt          \* executeWithRetry / queryWithRetry: a call, its attempts and its result

vars == <<lru, files, now, hist, db, phase, wk, sy, nreq, boots, atDrain, cl, sm, px, tf, rz, adm, rt>>
sysvars == <<db, phase, wk, sy, nreq, boots, atDrain, cl, sm, px, tf, rz, adm, rt>>

(***************************************************************************)
(* CacheEntry and LRUCache                                                 *)
(***************************************************************************)
\* the zero value of CacheEntry
ZeroEntry ==
    [URL |-> NIL, FilePath |-> NoPath, ThumbPath |-> NoPath, Format |-> "",
     AccessCount |-> 0, LastAccess |-> 0, CreatedAt |-> 0, Dirty |-> FALSE,
     Size |-> 0, prev |-> NIL, next |-> NIL]

NewLRUCache ==
    [entries |-> [k \in Keys |-> NIL],
     node |-> [h \in Handles |-> ZeroEntry],
     head |-> NIL, tail |-> NIL, currentSize |-> 0]

\* len(c.entries)
LenEntries(c) == Cardinality({k \in Keys : c.entries[k] # NIL})

\* the byte budget int64(c.maxSizeMB)*1024*1024, in size units
maxBytes == MaxSizeMB

\* a fresh CacheEntry object: the lowest handle nothing refers to
Referenced(c, roots) == {c.entries[k] : k \in Keys} \cup roots
NewHandle(c, roots) ==
    CHOOSE h \in Handles :
        /\ h \notin Referenced(c, roots)
        /\ \A g \in Handles : g \notin Referenced(c, roots) => h <= g

\* garbage collection: an object nothing refers to is gone
Collect(c, roots) ==
    [c EXCEPT !.node = [h \in Handles |->
        IF h \in Referenced(c, roots) THEN c.node[h] ELSE ZeroEntry]]

\* a removeFromList that forgets c.tail when the last node leaves
removeFromList_keepsTail(c, h) ==
    LET c1 == IF c.node[h].prev # NIL
              THEN [c EXCEPT !.node[c.node[h].prev].next = c.node[h].next]
              ELSE [c EXCEPT !.head = c.node[h].next]
    IN  IF c1.node[h].next # NIL
        THEN [c1 EXCEPT !.node[c1.node[h].next].prev = c1.node[h].prev]
        ELSE c1

removeFromList(c, h) ==
    LET c1 == IF c.node[h].prev # NIL
              THEN [c EXCEPT !.node[c.node[h].prev].next = c.node[h].next]
              ELSE [c EXCEPT !.head = c.node[h].next]
    IN  IF c1.node[h].next # NIL
        THEN [c1 EXCEPT !.node[c1.node[h].next].prev = c1.node[h].prev]
        ELSE [c1 EXCEPT !.tail = c1.node[h].prev]

addToHead(c, h) ==
    LET c1 == [c EXCEPT !.node[h].prev = NIL, !.node[h].next = c.head]
        c2 == IF c1.head # NIL THEN [c1 EXCEPT !.node[c1.head].prev = h] ELSE c1
        c3 == [c2 EXCEPT !.head = h]
    IN  IF c3.tail = NIL THEN [c3 EXCEPT !.tail = h] ELSE c3

moveToHead(c, h) == addToHead(removeFromList(c, h), h)

\* the files an entry's removal deletes (os.Remove of FilePath and ThumbPath)
EntryFiles(e) ==
    (IF e.FilePath # NoPath THEN {e.FilePath} ELSE {})
        \cup (IF e.ThumbPath # NoPath THEN {e.ThumbPath} ELSE {})

\* evictTail evicting the most recently used entry instead of the tail
evictTail_evictsHead(c) ==
    IF c.tail = NIL THEN [cache |-> c, removed |-> {}]
    ELSE LET toEvict == c.head
             e == c.node[toEvict]
             c1 == [c EXCEPT !.entries[e.URL] = NIL,
                             !.currentSize = c.currentSize - e.Size]
         IN  [cache |-> removeFromList(c1, toEvict), removed |-> EntryFiles(e)]

\* evictTail: the cache after the eviction, and the files it deleted
evictTail(c) ==
    IF c.tail = NIL THEN [cache |-> c, removed |-> {}]
    ELSE LET toEvict == c.tail
             e == c.node[toEvict]
             c1 == [c EXCEPT !.entries[e.URL] = NIL,
                             !.currentSize = c.currentSize - e.Size]
         IN  [cache |-> removeFromList(c1, toEvict), removed |-> EntryFiles(e)]

\* the eviction loop that ends Put
overLimit(c) == (LenEntries(c) > MaxEntries \/ c.currentSize > maxBytes) /\ c.tail # NIL

RECURSIVE evictLoop(_, _)
evictLoop(c, removed) ==
    IF overLimit(c)
    THEN LET r == evictTail(c) IN evictLoop(r.cache, removed \cup r.removed)
    ELSE [cache |-> c, removed |-> removed]

\* Put(key, entry) at time t; h is the handle of the object `entry` points to
Put(c, key, entry, h, t) ==
    IF c.entries[key] # NIL
    THEN LET x == c.entries[key]
             c1 == [c EXCEPT
                      !.currentSize = c.currentSize - c.node[x].Size + entry.Size,
                      !.node[x].FilePath = entry.FilePath,
                      !.node[x].ThumbPath = entry.ThumbPath,
                      !.node[x].Format = entry.Format,
                      !.node[x].Size = entry.Size,
                      !.node[x].LastAccess = t,
                      !.node[x].Dirty = TRUE]
         IN  [cache |-> moveToHead(c1, x), removed |-> {}]
    ELSE LET c1 == [c EXCEPT !.entries[key] = h,
                             !.node[h] = entry,
                             !.currentSize = c.currentSize + entry.Size]
         IN  evictLoop(addToHead(c1, h), {})

\* Get that leaves the recency list as it is
Get_noMoveToHead(c, key, t) ==
    IF c.entries[key] = NIL THEN c
    ELSE LET x == c.entries[key]
         IN  [c EXCEPT !.node[x].AccessCount = c.node[x].AccessCount + 1,
                       !.node[x].LastAccess = t,
                       !.node[x].Dirty = TRUE]

\* Get(key) at time t: the cache afterwards; the result is c.entries[key] (NIL: not found)
Get(c, key, t) ==
    IF c.entries[key] = NIL THEN c
    ELSE LET x == c.entries[key]
             c1 == moveToHead(c, x)
         IN  [c1 EXCEPT !.node[x].AccessCount = c1.node[x].AccessCount + 1,
                        !.node[x].LastAccess = t,
                        !.node[x].Dirty = TRUE]

\* a Remove that leaves currentSize as it is
Remove_keepsSize(c, key) ==
    IF c.entries[key] = NIL THEN [cache |-> c, removed |-> {}]
    ELSE LET x == c.entries[key]
             c1 == [c EXCEPT !.entries[key] = NIL]
         IN  [cache |-> removeFromList(c1, x), removed |-> EntryFiles(c.node[x])]

\* Remove(key)
Remove(c, key) ==
    IF c.entries[key] = NIL THEN [cache |-> c, removed |-> {}]
    ELSE LET x == c.entries[key]
             e == c.node[x]
             c1 == [c EXCEPT !.entries[key] = NIL,
                             !.currentSize = c.currentSize - e.Size]
         IN  [cache |-> removeFromList(c1, x), removed |-> EntryFiles(e)]

\* os.Remove of a set of paths
DeleteFiles(fs, removed) == [p \in Paths |-> IF p \in removed THEN 0 ELSE fs[p]]

\* the keys resident in the cache
Resident(c) == {k \in Keys : c.entries[k] # NIL}

\* the recency list from head, following next (at most n nodes)
RECURSIVE ListFrom(_, _, _)
ListFrom(c, h, n) ==
    IF h = NIL \/ n = 0 THEN <<>>
    ELSE <<c.node[h].URL>> \o ListFrom(c, c.node[h].next, n - 1)
Recency(c) == ListFrom(c, c.head, NumHandles)

\* the entry a caller builds for a miss (updateCacheRecord)
NewEntry(key, size, t) ==
    [URL |-> key, FilePath |-> getCacheFilePath(key), ThumbPath |-> thumbFilePath(key),
     Format |-> FormatOf(key), AccessCount |-> 1, LastAccess |-> t, CreatedAt |-> t,
     Dirty |-> TRUE, Size |-> size, prev |-> NIL, next |-> NIL]

(***************************************************************************)
(* The durable index: table "cache", url TEXT PRIMARY KEY.                 *)
(***************************************************************************)
\* t.Format(time.RFC3339): the time to the second
FormatRFC3339(t) == t \div TicksPerSec
\* time.Parse(time.RFC3339, s)
ParseRFC3339(s) == s * TicksPerSec

\* entryCopy := *entry, the fields syncToDB writes
EntryCopy(e) ==
    [URL |-> e.URL, FilePath |-> e.FilePath, ThumbPath |-> e.ThumbPath,
     Format |-> e.Format, AccessCount |-> e.AccessCount,
     LastAccess |-> e.LastAccess, CreatedAt |-> e.CreatedAt]

\* the row syncToDB writes for an entry
RowOf(e) ==
    [url |-> e.URL, file_path |-> e.FilePath, thumb_path |-> e.ThumbPath,
     format |-> e.Format, access_count |-> e.AccessCount,
     last_access |-> FormatRFC3339(e.LastAccess),
     created_at |-> FormatRFC3339(e.CreatedAt)]

HasRow(rows, url) == \E i \in 1..Len(rows) : rows[i].url = url
RowFor(rows, url) == rows[CHOOSE i \in 1..Len(rows) : rows[i].url = url]
\* DELETE FROM cache WHERE url = ?
DeleteRow(rows, url) == SelectSeq(rows, LAMBDA r : r.url # url)
\* INSERT OR REPLACE INTO cache: the replaced row goes, the new one gets a new rowid
InsertOrReplace(rows, r) == Append(DeleteRow(rows, r.url), r)

\* the transaction of syncToDB: one INSERT OR REPLACE per collected entry, in order
RECURSIVE WriteAll(_, _)
WriteAll(rows, toSync) ==
    IF toSync = <<>> THEN rows
    ELSE WriteAll(InsertOrReplace(rows, RowOf(Head(toSync))), Tail(toSync))

\* the entry loadCacheFromDB builds from a row
EntryOfRow(r, fs) ==
    [URL |-> r.url, FilePath |-> r.file_path, ThumbPath |-> r.thumb_path,
     Format |-> r.format, AccessCount |-> r.access_count,
     LastAccess |-> ParseRFC3339(r.last_access),
     CreatedAt |-> ParseRFC3339(r.created_at),
     Dirty |-> FALSE,
     Size |-> IF r.file_path \in Paths THEN fs[r.file_path] ELSE 0,
     prev |-> NIL, next |-> NIL]

\* loadCacheFromDB: every row is Put, in the order the SELECT returns them
RECURSIVE loadCacheFromDB(_, _, _, _)
loadCacheFromDB(c, fs, rows, t) ==
    IF rows = <<>> THEN [cache |-> c, files |-> fs]
    ELSE LET r == Put(c, Head(rows).url, EntryOfRow(Head(rows), fs), NewHandle(c, {}), t)
         IN  loadCacheFromDB(Collect(r.cache, {}), DeleteFiles(fs, r.removed), Tail(rows), t)

(***************************************************************************)
(* The tiered store: StorageManager over MemoryStorage and LocalStorage.   *)
(* The remote tier is off in defaultStorageConfig and its server is not    *)
(* part of the repository; the backends here are Memory and Local.         *)
(***************************************************************************)
\* file contents; a blob b is BlobLen(b) bytes long
Blobs == 1..NumBlobs
\* no data: a map without the key, a file that does not exist
NoBlob == 0
BlobLen(b) == b
\* hex(sha1(data)): one id per content
SHA1(b) == <<"sha1", b>>
\* the custom ids callers supply (handleStorageFiles' transformKey)
CustomIds == {<<"custom", 1>>}
\* a metadata map without custom_id, or a nil map
NoCustomId == <<>>
Metas == CustomIds \cup {NoCustomId}
Ids == {SHA1(b) : b \in Blobs} \cup CustomIds
\* the "" a failed Store returns as id
NoId == <<"">>

\* the backends NewStorageManager builds, fastest first
StorageConfigs == {<<"Memory", "Local">>, <<"Local">>, <<"Memory">>}
defaultStorageConfig == <<"Memory", "Local">>

NoOp == [op |-> "none"]
NewStorageManager(config) ==
    [backends |-> config,
     mem |-> [data |-> [i \in Ids |-> NoBlob], currSize |-> 0],
     loc |-> [i \in Ids |-> NoBlob],
     tasks |-> {},
     nops |-> 0,
     first |-> [i \in Ids |-> NoBlob],
     last |-> NoOp]

\* a backend that ignores custom_id
storeId_alwaysHash(data, meta) == SHA1(data)
\* the id a backend stores under: metadata["custom_id"] when given, else the SHA1
storeId(data, meta) == IF meta # NoCustomId THEN meta ELSE SHA1(data)

\* MemoryStorage.Store: the loop that frees space deletes one key at a time and
\* subtracts the length of the value it has just deleted from the map, that is 0, so
\* it runs until the map is empty
MemoryStore(m, data, meta) ==
    IF BlobLen(data) > MemoryMaxSize
    THEN [mem |-> m, id |-> NoId, ok |-> FALSE]
    ELSE LET m1 == IF m.currSize + BlobLen(data) > MemoryMaxSize
                   THEN [m EXCEPT !.data = [i \in Ids |-> NoBlob]]
                   ELSE m
         IN  [mem |-> [m1 EXCEPT !.data[storeId(data, meta)] = data,
                                 !.currSize = m1.currSize + BlobLen(data)],
              id |-> storeId(data, meta), ok |-> TRUE]

\* LocalStorage.Store: MkdirAll, then an existing file is left as it is, else WriteFile
LocalStore(l, data, meta, ioOk) ==
    IF ~ioOk
    THEN [loc |-> l, id |-> NoId, ok |-> FALSE]
    ELSE IF l[storeId(data, meta)] # NoBlob
    THEN [loc |-> l, id |-> storeId(data, meta), ok |-> TRUE]
    ELSE [loc |-> [l EXCEPT ![storeId(data, meta)] = data],
          id |-> storeId(data, meta), ok |-> TRUE]

\* backend.Store(data, metadata)
TierStore(s, name, data, meta, ioOk) ==
    IF name = "Memory"
    THEN LET r == MemoryStore(s.mem, data, meta)
         IN  [s |-> [s EXCEPT !.mem = r.mem], id |-> r.id, ok |-> r.ok]
    ELSE LET r == LocalStore(s.loc, data, meta, ioOk)
         IN  [s |-> [s EXCEPT !.loc = r.loc], id |-> r.id, ok |-> r.ok]

\* backend.Get(id): the data, or an error
TierGet(s, name, id) == IF name = "Memory" THEN s.mem.data[id] ELSE s.loc[id]

\* backend.Exists(id)
TierExists(s, name, id) == TierGet(s, name, id) # NoBlob

\* MemoryStorage.Delete returns nil whether or not it held the id
MemoryDelete(m, id) ==
    [mem |-> IF m.data[id] # NoBlob
             THEN [m EXCEPT !.data[id] = NoBlob,
                            !.currSize = m.currSize - BlobLen(m.data[id])]
             ELSE m,
     ok |-> TRUE]

\* LocalStorage.Delete: os.Remove, an error when there is no such file
LocalDelete(l, id) == [loc |-> [l EXCEPT ![id] = NoBlob], ok |-> l[id] # NoBlob]

\* backend.Delete(id)
TierDelete(s, name, id) ==
    IF name = "Memory"
    THEN LET r == MemoryDelete(s.mem, id)
         IN  [s |-> [s EXCEPT !.mem = r.mem], ok |-> r.ok]
    ELSE LET r == LocalDelete(s.loc, id)
         IN  [s |-> [s EXCEPT !.loc = r.loc], ok |-> r.ok]

\* StorageManager.Store's loop, from backend i down to the first one that accepts
RECURSIVE StoreFrom(_, _, _, _, _, _)
StoreFrom(s, i, data, meta, ioOk, log) ==
    IF i = 0
    THEN [s |-> s, id |-> NoId, ok |-> FALSE, at |-> 0, log |-> log]
    ELSE LET r == TierStore(s, s.backends[i], data, meta, ioOk)
         IN  IF r.ok
             THEN [s |-> r.s, id |-> r.id, ok |-> TRUE, at |-> i,
                   log |-> Append(log, [tier |-> i, ok |-> TRUE])]
             ELSE StoreFrom(r.s, i - 1, data, meta, ioOk,
                            Append(log, [tier |-> i, ok |-> FALSE]))

\* the metadata Store's goroutine hands to the faster backends: the caller's map
promoteMeta_nil(meta) == NoCustomId
promoteMeta(meta) == meta
\* the metadata the goroutine of Get and GetWithLevel hands to them: nil
backfillMeta == NoCustomId

\* the goroutine that call number n starts to copy data to the backends above `from`
UpperTask(n, kind, data, meta, id, from) ==
    IF from > 1
    THEN {[n |-> n, kind |-> kind, data |-> data, meta |-> meta, id |-> id,
           from |-> from, j |-> from - 1, accepted |-> TRUE]}
    ELSE {}

\* StorageManager.Store(data, metadata)
SMStore(data, meta, ioOk) ==
    /\ sm.nops < MaxStorageOps
    /\ LET r == StoreFrom(sm, Len(sm.backends), data, meta, ioOk, <<>>)
       IN  sm' = [r.s EXCEPT
                    !.nops = sm.nops + 1,
                    !.tasks = IF r.ok
                              THEN sm.tasks \cup
                                   UpperTask(sm.nops, "promote", data, promoteMeta(meta),
                                             r.id, r.at)
                              ELSE sm.tasks,
                    !.first = IF r.ok /\ sm.first[r.id] = NoBlob
                              THEN [sm.first EXCEPT ![r.id] = data]
                              ELSE sm.first,
                    !.last = [op |-> "Store", data |-> data, meta |-> meta, id |-> r.id,
                              ok |-> r.ok, at |-> r.at, log |-> r.log]]
    /\ UNCHANGED <<lru, files, now, hist, db, phase, wk, sy, nreq, boots, atDrain, cl, px, tf, rz, adm, rt>>

\* the walk of Get and GetWithLevel: the first backend, from i on, that has the id
RECURSIVE GetFrom_slowestFirst(_, _, _)
\* a walk that prefers the slower backends
GetFrom_slowestFirst(s, i, id) ==
    IF i > Len(s.backends)
    THEN [data |-> NoBlob, at |-> 0]
    ELSE LET r == GetFrom_slowestFirst(s, i + 1, id)
         IN  IF r.at > 0 THEN r
             ELSE IF TierGet(s, s.backends[i], id) # NoBlob
             THEN [data |-> TierGet(s, s.backends[i], id), at |-> i]
             ELSE r

RECURSIVE GetFrom(_, _, _)
GetFrom(s, i, id) ==
    IF i > Len(s.backends)
    THEN [data |-> NoBlob, at |-> 0]
    ELSE IF TierGet(s, s.backends[i], id) # NoBlob
    THEN [data |-> TierGet(s, s.backends[i], id), at |-> i]
    ELSE GetFrom(s, i + 1, id)

\* StorageManager.Get(id), and GetWithLevel(id), which also reports backend.Name()
SMGet(op, id) ==
    /\ sm.nops < MaxStorageOps
    /\ LET r == GetFrom(sm, 1, id)
       IN  sm' = [sm EXCEPT
                    !.nops = sm.nops + 1,
                    !.tasks = IF r.at > 0
                              THEN sm.tasks \cup
                                   UpperTask(sm.nops, "backfill", r.data, backfillMeta, id, r.at)
                              ELSE sm.tasks,
                    !.last = [op |-> op, id |-> id, data |-> r.data, ok |-> r.at > 0,
                              at |-> r.at,
                              level |-> IF r.at > 0 THEN sm.backends[r.at] ELSE ""]]
    /\ UNCHANGED <<lru, files, now, hist, db, phase, wk, sy, nreq, boots, atDrain, cl, px, tf, rz, adm, rt>>

\* StorageManager.Exists(id)
RECURSIVE ExistsFrom(_, _, _)
ExistsFrom(s, i, id) ==
    IF i > Len(s.backends) THEN FALSE
    ELSE IF TierExists(s, s.backends[i], id) THEN TRUE
    ELSE ExistsFrom(s, i + 1, id)
Exists(s, id) == ExistsFrom(s, 1, id)

\* StorageManager.Delete's loop over all backends
RECURSIVE DeleteFrom(_, _, _, _)
DeleteFrom(s, i, id, confirmed) ==
    IF i > Len(s.backends)
    THEN [s |-> s, confirmed |-> confirmed, issued |-> i - 1]
    ELSE LET r == TierDelete(s, s.backends[i], id)
         IN  DeleteFrom(r.s, i + 1, id, IF r.ok THEN confirmed \cup {i} ELSE confirmed)

\* Delete returns nil when some backend's Delete returned nil
deleteResult_always(confirmed) == TRUE
deleteResult(confirmed) == confirmed # {}

\* StorageManager.Delete(id)
SMDelete(id) ==
    /\ sm.nops < MaxStorageOps
    /\ LET r == DeleteFrom(sm, 1, id, {})
       IN  sm' = [r.s EXCEPT
                    !.nops = sm.nops + 1,
                    !.last = [op |-> "Delete", id |-> id, ok |-> deleteResult(r.confirmed),
                              confirmed |-> r.confirmed, issued |-> r.issued,
                              held |-> {i \in 1..Len(sm.backends) :
                                          TierExists(sm, sm.backends[i], id)}]]
    /\ UNCHANGED <<lru, files, now, hist, db, phase, wk, sy, nreq, boots, atDrain, cl, px, tf, rz, adm, rt>>

\* one Store of a goroutine started by Store, Get or GetWithLevel; its error is dropped
RunTask(t, ioOk) ==
    /\ t \in sm.tasks
    /\ LET r == TierStore(sm, sm.backends[t.j], t.data, t.meta, ioOk)
           t1 == [t EXCEPT !.j = t.j - 1, !.accepted = t.accepted /\ r.ok]
       IN  sm' = [r.s EXCEPT
                    !.tasks = (sm.tasks \ {t}) \cup (IF t1.j >= 1 THEN {t1} ELSE {}),
                    !.last = [op |-> "Task", n |-> t.n, kind |-> t.kind, id |-> t.id,
                              data |-> t.data, from |-> t.from, j |-> t.j, ok |-> r.ok,
                              accepted |-> t1.accepted, complete |-> t1.j < 1]]
    /\ UNCHANGED <<lru, files, now, hist, db, phase, wk, sy, nreq, boots, atDrain, cl, px, tf, rz, adm, rt>>

(***************************************************************************)
(* handleImageProxy: the cache key of a request.  A string is the sequence *)
(* of its pieces: a URL without query is one piece, "?" and "&" are pieces,*)
(* a parameter name=value is the piece <<name, value>>; concatenating      *)
(* strings is concatenating sequences.  A numeric value in a request is    *)
(* its string of digits.                                                   *)
(***************************************************************************)
ImageURL == "https://example.com/a.png"
\* the source URLs: the plain one, and one whose own query is w=100
Sources == {<<ImageURL>>, <<ImageURL, "?", <<"w", 100>> >>}
\* parsedURL.RawQuery of a source, as the list of its parameters
RawQuery(source) == IF Len(source) > 1 THEN <<source[3]>> ELSE <<>>
FormatStrs == {"webp", "WebP", "original", "bmp"}
ModeStrs == {"fit", "fill", "zoom"}
WidthStrs == {<<1, 0, 0>>, <<0>>}
HeightStrs == {<<5, 0>>}
QualityStrs == {<<8, 0>>, <<0, 8, 0>>, <<5, 0>>}
ParamNames == {"format", "w", "h", "q", "mode"}
ParamValues(name) ==
    CASE name = "format" -> FormatStrs
      [] name = "w" -> WidthStrs
      [] name = "h" -> HeightStrs
      [] name = "q" -> QualityStrs
      [] name = "mode" -> ModeStrs
QueryParams == UNION {{<<name, v>> : v \in ParamValues(name)} : name \in ParamNames}
\* the query strings: each parameter at most once
Queries ==
    UNION {{q \in [1..n -> QueryParams] : \A i, j \in 1..n : i # j => q[i][1] # q[j][1]} :
             n \in 0..MaxQueryLen}

RECURSIVE QueryGet(_, _, _)
\* url.Values.Get: the first value of the parameter, the empty string without one
QueryGet(query, name, empty) ==
    IF query = <<>> THEN empty
    ELSE IF Head(query)[1] = name THEN Head(query)[2]
    ELSE QueryGet(Tail(query), name, empty)

\* strings.ToLower
ToLower(str) == IF str = "WebP" THEN "webp" ELSE str

RECURSIVE Atoi(_)
\* strconv.Atoi of a string of digits
Atoi(digits) ==
    IF digits = <<>> THEN 0
    ELSE 10 * Atoi(SubSeq(digits, 1, Len(digits) - 1)) + digits[Len(digits)]

RECURSIVE Join(_, _)
\* strings.Join
Join(strs, sep) ==
    IF strs = <<>> THEN <<>>
    ELSE IF Len(strs) = 1 THEN <<strs[1]>>
    ELSE <<strs[1], sep>> \o Join(Tail(strs), sep)

\* the URL that is fetched.  A source that came in the request path has the proxy's
\* parameters taken out of its own query when the request carries them as well; a
\* source given as ?url= is left as it is.
cleanImageURL(source, viaURLParam, query) ==
    IF viaURLParam \/ RawQuery(source) = <<>> THEN source
    ELSE LET kept == SelectSeq(RawQuery(source),
                               LAMBDA pr : ~(pr[1] \in ParamNames
                                             /\ \E i \in 1..Len(query) : query[i][1] = pr[1]))
         IN  IF kept = <<>> THEN <<source[1]>> ELSE <<source[1], "?">> \o Join(kept, "&")

NoKey == <<>>
NoRequest ==
    [source |-> <<>>, viaURLParam |-> FALSE, query |-> <<>>, ok |-> FALSE, key |-> NoKey,
     clean |-> <<>>, transform |-> <<>>]

\* the key the handler derives: ok is false when it answers 400 before deriving one.
\* clean is the URL it fetches and transform the parameters it goes on with; a number
\* in the key is printed with %d.
cacheKey(source, viaURLParam, query) ==
    LET requestedFormat == ToLower(QueryGet(query, "format", ""))
        forceWebP == requestedFormat = "webp"
        forceOriginal == requestedFormat \in {"original", "png", "jpeg", "jpg", "gif"}
        formatOk == requestedFormat = "" \/ forceWebP \/ forceOriginal
        widthStr == QueryGet(query, "w", <<>>)
        heightStr == QueryGet(query, "h", <<>>)
        qualityStr == QueryGet(query, "q", <<>>)
        modeStr == QueryGet(query, "mode", "")
        widthOk == widthStr = <<>> \/ (Atoi(widthStr) > 0 /\ Atoi(widthStr) <= 5000)
        heightOk == heightStr = <<>> \/ (Atoi(heightStr) > 0 /\ Atoi(heightStr) <= 5000)
        qualityOk == qualityStr = <<>> \/ (Atoi(qualityStr) >= 1 /\ Atoi(qualityStr) <= 100)
        modeOk == modeStr = "" \/ modeStr \in {"fit", "fill", "stretch", "pad"}
        targetWidth == IF widthStr = <<>> THEN 0 ELSE Atoi(widthStr)
        targetHeight == IF heightStr = <<>> THEN 0 ELSE Atoi(heightStr)
        quality == IF qualityStr = <<>> THEN 80 ELSE Atoi(qualityStr)
        resizeMode == IF modeStr = "" THEN "fit" ELSE modeStr
        clean == cleanImageURL(source, viaURLParam, query)
        params ==
            (IF forceWebP THEN << <<"format", "webp">> >>
             ELSE IF forceOriginal THEN << <<"format", "original">> >> ELSE <<>>)
            \o (IF targetWidth > 0 THEN << <<"w", targetWidth>> >> ELSE <<>>)
            \o (IF targetHeight > 0 THEN << <<"h", targetHeight>> >> ELSE <<>>)
            \o (IF quality # 80 THEN << <<"q", quality>> >> ELSE <<>>)
            \o (IF resizeMode # "fit" /\ (targetWidth > 0 \/ targetHeight > 0)
                THEN << <<"mode", resizeMode>> >> ELSE <<>>)
    IN  IF formatOk /\ widthOk /\ heightOk /\ qualityOk /\ modeOk
        THEN [ok |-> TRUE,
              key |-> IF params = <<>> THEN clean ELSE source \o <<"?">> \o Join(params, "&"),
              clean |-> clean,
              transform |-> [forceWebP |-> forceWebP, forceOriginal |-> forceOriginal,
                             targetWidth |-> targetWidth, targetHeight |-> targetHeight,
                             quality |-> quality,
                             resizeMode |-> IF targetWidth > 0 \/ targetHeight > 0
                                            THEN resizeMode ELSE "fit"]]
        ELSE [ok |-> FALSE, key |-> NoKey, clean |-> clean, transform |-> <<>>]

\* one request: the handler up to the cache lookup
handleImageProxy(source, viaURLParam, query) ==
    /\ px' = [source |-> source, viaURLParam |-> viaURLParam, query |-> query,
              ok |-> cacheKey(source, viaURLParam, query).ok,
              key |-> cacheKey(source, viaURLParam, query).key,
              clean |-> cacheKey(source, viaURLParam, query).clean,
              transform |-> cacheKey(source, viaURLParam, query).transform]
    /\ UNCHANGED <<lru, files, now, hist, db, phase, wk, sy, nreq, boots, atDrain, cl, sm,
                   tf, rz, adm, rt>>

(***************************************************************************)
(* resizeImage.  An image is its width, its height and its pixels; a pixel *)
(* is "image" when it was taken from the source, "white" when it is the    *)
(* opaque white of the padding, "blank" when nothing was drawn on it.      *)
(***************************************************************************)
ResizeModes == {"fit", "fill", "stretch", "pad"}
Dims == 1..MaxDim
NoResize == [pc |-> "none"]

\* Go's integer division, which truncates toward zero
GoDiv(a, b) == IF a >= 0 THEN a \div b ELSE -((-a) \div b)

\* int(float64(orig) * scale) for scale = float64(num) / float64(den).  When the exact
\* product is a whole number the rounded one is that number or just below it, and
\* `below` says which; otherwise the fraction is cut off.
ScaleDim(orig, num, den, below) ==
    LET exact == (orig * num) \div den
    IN  IF (orig * num) % den = 0 /\ num # den /\ below /\ exact > 0 THEN exact - 1 ELSE exact

\* scaleImage: every pixel of the new image is computed from the source
scaleImage(newWidth, newHeight) ==
    [w |-> newWidth, h |-> newHeight,
     pix |-> [xy \in (0..(newWidth - 1)) \X (0..(newHeight - 1)) |-> "image"]]

\* cropImage: the pixels inside the source are copied, the others are left as they are
cropImage(img, x, y, width, height) ==
    [w |-> width, h |-> height,
     pix |-> [d \in (0..(width - 1)) \X (0..(height - 1)) |->
                 IF x + d[1] >= 0 /\ y + d[2] >= 0 /\ x + d[1] < img.w /\ y + d[2] < img.h
                 THEN img.pix[<<x + d[1], y + d[2]>>] ELSE "blank"]]

\* a fit that scales by the larger of the two ratios
fitScale_larger(a, b) == IF a[1] * b[2] >= b[1] * a[2] THEN a ELSE b

\* math.Min of the two ratios num/den
fitScale(a, b) == IF a[1] * b[2] <= b[1] * a[2] THEN a ELSE b

\* math.Max of the two ratios num/den
fillScale(a, b) == IF a[1] * b[2] >= b[1] * a[2] THEN a ELSE b

\* resizeImage(img, targetWidth, targetHeight, mode) for an img of origWidth x origHeight;
\* box is the target after the missing side has been derived
resizeImage(origWidth, origHeight, targetWidth, targetHeight, mode, belowW, belowH) ==
    LET tw == IF targetWidth = 0 THEN (origWidth * targetHeight) \div origHeight
              ELSE targetWidth
        th == IF targetWidth # 0 /\ targetHeight = 0
              THEN (origHeight * targetWidth) \div origWidth
              ELSE targetHeight
        scaleX == <<tw, origWidth>>
        scaleY == <<th, origHeight>>
        scaledBy(scale) ==
            scaleImage(ScaleDim(origWidth, scale[1], scale[2], belowW),
                       ScaleDim(origHeight, scale[1], scale[2], belowH))
        box == [w |-> tw, h |-> th]
    IN  IF targetWidth = 0 /\ targetHeight = 0
        THEN [img |-> scaleImage(origWidth, origHeight),
              box |-> [w |-> 0, h |-> 0], inner |-> [x |-> 0, y |-> 0, w |-> origWidth,
                                                     h |-> origHeight]]
        ELSE CASE mode = "stretch" ->
                    [img |-> scaleImage(tw, th), box |-> box,
                     inner |-> [x |-> 0, y |-> 0, w |-> tw, h |-> th]]
               [] mode = "fill" ->
                    LET scaled == scaledBy(fillScale(scaleX, scaleY))
                        cropX == GoDiv(scaled.w - tw, 2)
                        cropY == GoDiv(scaled.h - th, 2)
                    IN  [img |-> cropImage(scaled, cropX, cropY, tw, th), box |-> box,
                         inner |-> [x |-> 0, y |-> 0, w |-> tw, h |-> th]]
               [] mode = "pad" ->
                    LET scaled == scaledBy(fitScale(scaleX, scaleY))
                        offsetX == GoDiv(tw - scaled.w, 2)
                        offsetY == GoDiv(th - scaled.h, 2)
                    IN  [img |-> [w |-> tw, h |-> th,
                                  pix |-> [d \in (0..(tw - 1)) \X (0..(th - 1)) |->
                                      IF /\ d[1] >= offsetX /\ d[1] < offsetX + scaled.w
                                         /\ d[2] >= offsetY /\ d[2] < offsetY + scaled.h
                                      THEN scaled.pix[<<d[1] - offsetX, d[2] - offsetY>>]
                                      ELSE "white"]],
                         box |-> box,
                         inner |-> [x |-> offsetX, y |-> offsetY, w |-> scaled.w,
                                    h |-> scaled.h]]
               [] OTHER ->
                    LET scaled == scaledBy(fitScale(scaleX, scaleY))
                    IN  [img |-> scaled, box |-> box,
                         inner |-> [x |-> 0, y |-> 0, w |-> scaled.w, h |-> scaled.h]]

\* the calls: a source of any size, a box of which at least one side is given
ResizeCalls ==
    {[pc |-> "call", origWidth |-> ow, origHeight |-> oh, targetWidth |-> w,
      targetHeight |-> h, mode |-> mode] :
        ow \in Dims, oh \in Dims, w \in 0..MaxDim, h \in 0..MaxDim, mode \in ResizeModes}

\* one call of resizeImage returns
ResizeReturn(belowW, belowH) ==
    /\ rz.pc = "call"
    /\ LET r == resizeImage(rz.origWidth, rz.origHeight, rz.targetWidth, rz.targetHeight,
                            rz.mode, belowW, belowH)
       IN  rz' = [pc |-> "done", origWidth |-> rz.origWidth, origHeight |-> rz.origHeight,
                  targetWidth |-> rz.targetWidth, targetHeight |-> rz.targetHeight,
                  mode |-> rz.mode, belowW |-> belowW, belowH |-> belowH,
                  img |-> r.img, box |-> r.box, inner |-> r.inner]
    /\ UNCHANGED <<lru, files, now, hist, db, phase, wk, sy, nreq, boots, atDrain, cl, sm,
                   px, tf, adm, rt>>

(***************************************************************************)
(* handleImageProxy on a miss: the upstream fetch, the decoding, the       *)
(* resizing, the encoding and the write to the cache.  A source image is   *)
(* the format its first bytes announce, the number of its frames and       *)
(* whether image.Decode accepts it; a body is what it was made from.       *)
(***************************************************************************)
SourceImages ==
    {[name |-> "still.webp", format |-> "webp", frames |-> 1, decodable |-> FALSE],
     [name |-> "anim.webp", format |-> "webp", frames |-> 3, decodable |-> FALSE],
     [name |-> "still.gif", format |-> "gif", frames |-> 1, decodable |-> TRUE],
     [name |-> "anim.gif", format |-> "gif", frames |-> 3, decodable |-> TRUE],
     [name |-> "photo.png", format |-> "png", frames |-> 1, decodable |-> TRUE],
     [name |-> "page.html", format |-> "", frames |-> 1, decodable |-> FALSE]}
NoImage == [name |-> "", format |-> "", frames |-> 0, decodable |-> FALSE]
\* what the upstream does: client.Get fails, the status is not 200, the body cannot
\* be read to its end, or an image arrives
Upstreams ==
    {[kind |-> "error", code |-> 0, img |-> NoImage],
     [kind |-> "status", code |-> 404, img |-> NoImage],
     [kind |-> "status", code |-> 500, img |-> NoImage],
     [kind |-> "truncated", code |-> 200, img |-> NoImage]}
    \cup {[kind |-> "image", code |-> 200, img |-> i] : i \in SourceImages}
\* the parameters the handler goes on with after it has parsed the request
Transforms ==
    {[requestedFormat |-> f, targetWidth |-> w, targetHeight |-> h, resizeMode |-> mode] :
        f \in {"", "webp", "original", "png"}, w \in {0, MaxDim}, h \in {0, MaxDim},
        mode \in {"fit", "fill"}}
NoBody == [kind |-> "none", frames |-> 0, resized |-> FALSE, of |-> ""]
NoTransform == [status |-> 0, cause |-> "none"]

\* the response and the cache write of a miss.  cause says what failed: the upstream,
\* the decoding, or something inside the proxy; stored says that the cache file was
\* written and updateCacheRecord called.
fetchAndTransform(t, up, encodeOk, writeOk) ==
    LET forceWebP == t.requestedFormat = "webp"
        forceOriginal == t.requestedFormat \in {"original", "png", "jpeg", "jpg", "gif"}
        detectedFormat == up.img.format
        decoded == detectedFormat # "webp" /\ up.img.decodable
        needResize == (t.targetWidth > 0 \/ t.targetHeight > 0) /\ decoded
        fail(status, cause) ==
            [status |-> status, cause |-> cause, body |-> NoBody, format |-> "",
             stored |-> FALSE]
        done(body, format) ==
            [status |-> 200, cause |-> "none", body |-> body, format |-> format,
             stored |-> writeOk]
        raw == [kind |-> "raw", frames |-> up.img.frames, resized |-> FALSE,
                of |-> up.img.name]
        \* nativewebp.Encode(outputBuf, img, nil): one frame
        webp == IF encodeOk
                THEN done([kind |-> "webp", frames |-> 1, resized |-> needResize,
                           of |-> up.img.name], "webp")
                ELSE fail(500, "internal")
        \* gif.EncodeAll(outputBuf, gifImg): every frame
        gif == IF encodeOk
               THEN done([kind |-> "gif", frames |-> up.img.frames, resized |-> FALSE,
                          of |-> up.img.name], "gif")
               ELSE fail(500, "internal")
    IN  CASE up.kind = "error" -> fail(502, "upstream")
          [] up.kind = "status" -> fail(up.code, "upstream")
          [] up.kind = "truncated" -> fail(500, "internal")
          [] OTHER ->
               IF detectedFormat # "webp" /\ ~up.img.decodable THEN fail(415, "decode")
               ELSE IF forceOriginal /\ ~needResize THEN done(raw, detectedFormat)
               ELSE IF forceWebP
               THEN IF detectedFormat = "webp" /\ ~needResize THEN done(raw, "webp")
                    ELSE IF decoded THEN webp
                    ELSE done(raw, "webp")
               ELSE IF forceOriginal /\ needResize THEN webp
               ELSE IF detectedFormat = "webp" /\ ~needResize THEN done(raw, "webp")
               ELSE IF detectedFormat = "webp" /\ needResize THEN fail(500, "internal")
               ELSE IF detectedFormat = "gif"
               THEN IF needResize THEN webp
                    ELSE IF up.img.frames <= 1 THEN webp
                    ELSE gif
               ELSE webp

\* one request that missed the cache
FetchAndTransform(t, up, encodeOk, writeOk) ==
    /\ tf' = [request |-> t, upstream |-> up, encodeOk |-> encodeOk, writeOk |-> writeOk]
              @@ fetchAndTransform(t, up, encodeOk, writeOk)
    /\ UNCHANGED <<lru, files, now, hist, db, phase, wk, sy, nreq, boots, atDrain, cl, sm,
                   px, rz, adm, rt>>

(***************************************************************************)
(* The tasks                                                               *)
(***************************************************************************)
\* the errors db.Exec and db.Query return, as the words of err.Error(); <<>> is nil
DbErrors ==
    {<<>>, <<"database", "is", "locked">>, <<"database", "table", "is", "locked">>,
     <<"database", "is", "locked", "(5)", "(SQLITE_BUSY)">>, <<"disk", "I/O", "error">>,
     <<"no", "such", "table">>}

\* strings.Contains(str, substr)
Contains(str, substr) ==
    \E i \in 0..(Len(str) - Len(substr)) :
        \A j \in 1..Len(substr) : str[i + j] = substr[j]

\* a test that takes every error for a locked database
isLockedError_any(err) == TRUE

\* the test of the retry loops: "database is locked" or "database table is locked"
isLockedError(err) ==
    \/ Contains(err, <<"database", "is", "locked">>)
    \/ Contains(err, <<"database", "table", "is", "locked">>)

\* no call of executeWithRetry or queryWithRetry is running
IdleRetry == [pc |-> "idle", fn |-> "", retries |-> 0, errs |-> <<>>, slept |-> <<>>]

IdleWorker == [pc |-> "idle", key |-> NIL, h |-> NIL, hit |-> FALSE, bumps |-> 0,
               evicted |-> {}]
IdleSync == [pc |-> "idle", toSync |-> <<>>, i |-> 1, cur |-> NIL, res |-> "none",
             quiet |-> FALSE]

\* cleanupMemCache between two ticks
IdleCleanup ==
    [pc |-> "idle", snap |-> [k \in Keys |-> NIL], todo |-> {}, now |-> 0, cur |-> NIL,
     seen |-> <<>>, flushed |-> FALSE, written |-> FALSE, removed |-> {}, nreq |-> 0,
     idle |-> FALSE]

\* the CacheEntry pointers the map returned by lruCache.GetAll() still holds
SnapHandles(c) == {c.snap[k] : k \in c.todo}
\* the CacheEntry pointers the request handlers and the runs of syncToDB hold
TaskRoots(w, s) == ({w[x].h : x \in Workers} \cup {s[x].cur : x \in Syncers}) \ {NIL}
\* the CacheEntry pointers the tasks hold
Roots(w, s) == TaskRoots(w, s) \cup SnapHandles(cl)

AllIdle == \A w \in Workers : wk[w].pc = "idle"
\* a request handler's step, seen from the runs of syncToDB
Noise(s) == [x \in Syncers |-> [s[x] EXCEPT !.quiet = FALSE]]

\* dbMutex is held by a run of syncToDB from its dbMutex.Lock() to its return
HoldsDbMutex(x) == x.pc \in {"committed", "marking", "done"}
DbMutexFree == \A s \in Syncers : ~HoldsDbMutex(sy[s])

\* the dirty entries, as syncToDB's scan copies them
DirtyCopies(c) ==
    {EntryCopy(c.node[c.entries[k]]) : k \in {x \in Resident(c) : c.node[c.entries[x]].Dirty}}
\* the orders a range over a map can produce
Orders(S) == {f \in [1..Cardinality(S) -> S] : \A i, j \in 1..Cardinality(S) : i # j => f[i] # f[j]}

InitCache ==
    /\ lru = NewLRUCache
    /\ files = [p \in Paths |-> 0]
    /\ now = 0
    /\ hist = <<>>
    /\ db = <<>>
    /\ phase = "up"
    /\ wk = [w \in Workers |-> IdleWorker]
    /\ sy = [s \in Syncers |-> IdleSync]
    /\ nreq = 0
    /\ boots = 0
    /\ atDrain = {}
    /\ cl = IdleCleanup
    /\ px = NoRequest
    /\ tf = NoTransform
    /\ adm = [useMemCache |-> TRUE, syncLoops |-> 1, cleanupLoops |-> 1, toggles |-> 0]
    /\ rt = IdleRetry

\* main: the cache state above, and NewStorageManager(defaultStorageConfig)
Init ==
    /\ InitCache
    /\ rz = NoResize
    /\ sm = NewStorageManager(defaultStorageConfig)

\* the clock
Tick ==
    /\ now < MaxTime
    /\ phase # "booted"
    /\ now' = now + 1
    /\ UNCHANGED <<lru, files, hist, sysvars>>

\* how much a step raised the access count of the object h
Bumped(c, d, h) == IF h = NIL THEN 0 ELSE d.node[h].AccessCount - c.node[h].AccessCount

\* handleImageProxy, getFromCache: lruCache.Get(cacheKey) and the expiry check
Lookup(w, key) ==
    /\ phase = "up"
    /\ wk[w].pc = "idle"
    /\ nreq < MaxRequests
    /\ nreq' = nreq + 1
    /\ LET h == lru.entries[key]
           c == Get(lru, key, now)
       IN  IF h = NIL
           THEN /\ lru' = c
                /\ files' = files
                /\ wk' = [wk EXCEPT ![w] = [IdleWorker EXCEPT !.pc = "dbLookup", !.key = key]]
           ELSE IF now - c.node[h].LastAccess > CacheValidity
           THEN LET r == Remove(c, key)
                IN  /\ lru' = Collect(r.cache, Roots(wk, sy))
                    /\ files' = DeleteFiles(files, r.removed)
                    /\ wk' = [wk EXCEPT ![w] = [IdleWorker EXCEPT !.pc = "fetch", !.key = key]]
           ELSE /\ lru' = c
                /\ files' = files
                /\ wk' = [wk EXCEPT ![w] = [IdleWorker EXCEPT !.pc = "read", !.key = key,
                                                !.h = h, !.bumps = Bumped(lru, c, h)]]
    /\ sy' = Noise(sy)
    /\ UNCHANGED <<now, hist, db, phase, boots, atDrain, cl, sm, px, tf, rz, adm, rt>>

\* getFromCache: os.ReadFile(entry.FilePath); a missing file removes the entry
ReadCached(w) ==
    /\ wk[w].pc = "read"
    /\ LET e == lru.node[wk[w].h]
       IN  IF e.FilePath \in Paths /\ files[e.FilePath] > 0
           THEN /\ wk' = [wk EXCEPT ![w].pc = "hitRecord", ![w].hit = TRUE, ![w].h = NIL]
                /\ lru' = Collect(lru, Roots(wk', sy))
                /\ files' = files
           ELSE LET r == Remove(lru, wk[w].key)
                IN  /\ wk' = [wk EXCEPT ![w].pc = "fetch", ![w].h = NIL, ![w].bumps = 0]
                    /\ lru' = Collect(r.cache, Roots(wk', sy))
                    /\ files' = DeleteFiles(files, r.removed)
    /\ sy' = Noise(sy)
    /\ UNCHANGED <<now, hist, db, phase, nreq, boots, atDrain, cl, sm, px, tf, rz, adm, rt>>

\* getFromCache: the entry is not in memory, the durable index is asked
DbLookup(w) ==
    /\ wk[w].pc = "dbLookup"
    /\ DbMutexFree
    /\ IF ~HasRow(db, wk[w].key)
       THEN /\ wk' = [wk EXCEPT ![w].pc = "fetch"]
            /\ db' = db
       ELSE LET r == RowFor(db, wk[w].key)
            IN  IF r.file_path \in Paths /\ files[r.file_path] > 0
                THEN /\ wk' = [wk EXCEPT ![w].pc = "hitRecord"]
                     /\ db' = db
                ELSE /\ wk' = [wk EXCEPT ![w].pc = "fetch"]
                     /\ db' = DeleteRow(db, wk[w].key)
    /\ sy' = Noise(sy)
    /\ UNCHANGED <<lru, files, now, hist, phase, nreq, boots, atDrain, cl, sm, px, tf, rz, adm, rt>>

\* handleImageProxy on a miss: the upstream fetch fails, or the image is fetched,
\* transformed and written to the cache directory with its thumbnail
Fetch(w, ok) ==
    /\ wk[w].pc = "fetch"
    /\ IF ok
       THEN /\ files' = [files EXCEPT ![thumbFilePath(wk[w].key)] = 1,
                                      ![getCacheFilePath(wk[w].key)] = SourceSize(wk[w].key)]
            /\ wk' = [wk EXCEPT ![w].pc = "store"]
       ELSE /\ files' = files
            /\ wk' = [wk EXCEPT ![w].pc = "respond"]
    /\ sy' = Noise(sy)
    /\ UNCHANGED <<lru, now, hist, db, phase, nreq, boots, atDrain, cl, sm, px, tf, rz, adm, rt>>

\* the entries a Put evicted, as they were
Evicted(c, d, key) ==
    {c.node[c.entries[k]] : k \in {x \in Resident(c) : d.entries[x] = NIL}}

\* updateCacheRecord(isHit = false): os.Stat and lruCache.Put of the new entry
Store(w) ==
    /\ wk[w].pc = "store"
    /\ LET key == wk[w].key
           r == Put(lru, key, NewEntry(key, files[getCacheFilePath(key)], now),
                    NewHandle(lru, Roots(wk, sy)), now)
       IN  /\ lru' = Collect(r.cache, Roots(wk, sy))
           /\ files' = DeleteFiles(files, r.removed)
           /\ wk' = [wk EXCEPT ![w].pc = "respond",
                               ![w].evicted = Evicted(lru, r.cache, key)]
    /\ sy' = Noise(sy)
    /\ UNCHANGED <<now, hist, db, phase, nreq, boots, atDrain, cl, sm, px, tf, rz, adm, rt>>

\* updateCacheRecord(isHit = true): lruCache.Get(url)
HitRecord(w) ==
    /\ wk[w].pc = "hitRecord"
    /\ lru' = Get(lru, wk[w].key, now)
    /\ wk' = [wk EXCEPT ![w].pc = "respond",
                        ![w].bumps = wk[w].bumps + Bumped(lru, lru', lru.entries[wk[w].key])]
    /\ sy' = Noise(sy)
    /\ UNCHANGED <<files, now, hist, db, phase, nreq, boots, atDrain, cl, sm, px, tf, rz, adm, rt>>

\* handleImageProxy: the response is written, the handler returns
Respond(w) ==
    /\ wk[w].pc = "respond"
    /\ wk' = [wk EXCEPT ![w] = IdleWorker]
    /\ sy' = Noise(sy)
    /\ UNCHANGED <<lru, files, now, hist, db, phase, nreq, boots, atDrain, cl, sm, px, tf, rz, adm, rt>>

\* syncToDB: the dirty entries are collected from lruCache.GetAll()
SyncScan(s) ==
    /\ sy[s].pc = "idle"
    /\ IF s = "shutdown" THEN phase = "stopping" ELSE phase \in {"up", "draining"}
    /\ IF DirtyCopies(lru) = {}
       THEN /\ s = "shutdown"
            /\ sy' = [sy EXCEPT ![s].pc = "returned", ![s].res = "nothing"]
       ELSE \E order \in Orders(DirtyCopies(lru)) :
                sy' = [sy EXCEPT ![s] = [IdleSync EXCEPT !.pc = "scanned", !.toSync = order,
                                                        !.quiet = AllIdle]]
    /\ UNCHANGED <<lru, files, now, hist, db, phase, wk, nreq, boots, atDrain, cl, sm, px, tf, rz, adm, rt>>

\* a syncToDB that goes on to mark its entries whether or not the transaction failed
afterTx_marksAnyway(ok) == "committed"

\* where syncToDB goes on after its transaction
afterTx(ok) == IF ok THEN "committed" ELSE "done"

\* syncToDB: dbMutex.Lock, db.Begin, the INSERT OR REPLACE of every collected entry,
\* tx.Commit
SyncTx(s, ok) ==
    /\ sy[s].pc = "scanned"
    /\ phase # "down"
    /\ DbMutexFree
    /\ db' = IF ok THEN WriteAll(db, sy[s].toSync) ELSE db
    /\ sy' = [sy EXCEPT ![s].pc = afterTx(ok), ![s].res = IF ok THEN "ok" ELSE "failed"]
    /\ UNCHANGED <<lru, files, now, hist, phase, wk, nreq, boots, atDrain, cl, sm, px, tf, rz, adm, rt>>

\* the position after entry i of toSync has been handled
nextMark(x) == IF x.i + 1 > Len(x.toSync) THEN "done" ELSE "committed"

\* syncToDB, marking: lruCache.Get(entry.URL)
SyncMarkGet(s) ==
    /\ sy[s].pc = "committed"
    /\ phase # "down"
    /\ LET url == sy[s].toSync[sy[s].i].URL
       IN  /\ lru' = Get(lru, url, now)
           /\ IF lru.entries[url] = NIL
              THEN sy' = [sy EXCEPT ![s].pc = nextMark(sy[s]), ![s].i = sy[s].i + 1]
              ELSE sy' = [sy EXCEPT ![s].pc = "marking", ![s].cur = lru.entries[url]]
    /\ UNCHANGED <<files, now, hist, db, phase, wk, nreq, boots, atDrain, cl, sm, px, tf, rz, adm, rt>>

\* a marking loop that leaves the flag as it is
clearDirty_keepsFlag(c, h) == c

\* cached.Dirty = false
clearDirty(c, h) == [c EXCEPT !.node[h].Dirty = FALSE]

\* syncToDB, marking: cached.Dirty = false
SyncMarkClear(s) ==
    /\ sy[s].pc = "marking"
    /\ phase # "down"
    /\ sy' = [sy EXCEPT ![s].pc = nextMark(sy[s]), ![s].i = sy[s].i + 1, ![s].cur = NIL]
    /\ lru' = Collect(clearDirty(lru, sy[s].cur), Roots(wk, sy'))
    /\ UNCHANGED <<files, now, hist, db, phase, wk, nreq, boots, atDrain, cl, sm, px, tf, rz, adm, rt>>

\* what syncToDB holds of lruCache.mu while it takes the step from position pc:
\* GetAll reads the map under the read lock, Get runs under the exclusive lock, and
\* the statements on the pointers they return run under no lock
cacheLock(pc) ==
    CASE pc = "idle" -> "shared"
      [] pc = "committed" -> "exclusive"
      [] OTHER -> "none"

\* syncToDB returns, dbMutex is released
SyncReturn(s) ==
    /\ sy[s].pc = "done"
    /\ phase # "down"
    /\ sy' = [sy EXCEPT ![s] = IF s = "shutdown"
                                THEN [sy[s] EXCEPT !.pc = "returned"]
                                ELSE IdleSync]
    /\ UNCHANGED <<lru, files, now, hist, db, phase, wk, nreq, boots, atDrain, cl, sm, px, tf, rz, adm, rt>>

\* setupGracefulShutdown: the signal arrives, httpServer.Shutdown stops accepting
ShutdownSignal ==
    /\ phase = "up"
    /\ phase' = "draining"
    /\ UNCHANGED <<lru, files, now, hist, db, wk, sy, nreq, boots, atDrain, cl, sm, px, tf, rz, adm, rt>>

\* the in-flight requests have finished; the stop channels are closed
ShutdownDrained ==
    /\ phase = "draining"
    /\ AllIdle
    /\ phase' = "stopping"
    /\ atDrain' = DirtyCopies(lru)
    /\ UNCHANGED <<lru, files, now, hist, db, wk, sy, nreq, boots, cl, sm, px, tf, rz, adm, rt>>

\* db.Close and os.Exit(0), after the shutdown handler's syncToDB has returned
Exit ==
    /\ phase = "stopping"
    /\ sy["shutdown"].pc = "returned"
    /\ phase' = "down"
    /\ lru' = NewLRUCache
    /\ wk' = [w \in Workers |-> IdleWorker]
    /\ sy' = [sy EXCEPT !["ticker"] = IdleSync]
    /\ UNCHANGED <<files, now, hist, db, nreq, boots, atDrain, cl, sm, px, tf, rz, adm, rt>>

\* main of the next process: NewLRUCache, initDB, loadCacheFromDB
Restart ==
    /\ phase = "down"
    /\ boots < MaxBoots
    /\ boots' = boots + 1
    /\ phase' = "booted"
    /\ LET r == loadCacheFromDB(NewLRUCache, files, db, now)
       IN  /\ lru' = r.cache
           /\ files' = r.files
    /\ UNCHANGED <<now, hist, db, wk, sy, nreq, atDrain, cl, sm, px, tf, rz, adm, rt>>

\* main: the background loops and the HTTP server are started
Serve ==
    /\ phase = "booted"
    /\ phase' = "up"
    /\ sy' = [s \in Syncers |-> IdleSync]
    /\ atDrain' = {}
    /\ UNCHANGED <<lru, files, now, hist, db, wk, nreq, boots, cl, sm, px, tf, rz, adm, rt>>

Next ==
    \/ Tick
    \/ \E w \in Workers, key \in Keys : Lookup(w, key)
    \/ \E w \in Workers : ReadCached(w)
    \/ \E w \in Workers : DbLookup(w)
    \/ \E w \in Workers, ok \in BOOLEAN : Fetch(w, ok)
    \/ \E w \in Workers : Store(w)
    \/ \E w \in Workers : HitRecord(w)
    \/ \E w \in Workers : Respond(w)
    \/ \E s \in Syncers : SyncScan(s)
    \/ \E s \in Syncers, ok \in BOOLEAN : SyncTx(s, ok)
    \/ \E s \in Syncers : SyncMarkGet(s)
    \/ \E s \in Syncers : SyncMarkClear(s)
    \/ \E s \in Syncers : SyncReturn(s)
    \/ ShutdownSignal
    \/ ShutdownDrained
    \/ Exit
    \/ Restart
    \/ Serve

Spec == Init /\ [][Next]_vars

(***************************************************************************)
(* cleanupMemCache: one tick of the cleanup loop                           *)
(***************************************************************************)
\* the row of the durable index is at least as recent as the entry e
RowCovers(rows, e) ==
    /\ HasRow(rows, e.URL)
    /\ RowFor(rows, e.URL).access_count >= e.AccessCount
    /\ RowFor(rows, e.URL).last_access >= FormatRFC3339(e.LastAccess)

\* a syncSingleEntry that leaves an existing row as it is
syncSingleEntry_insertOnly(rows, url, e) ==
    IF HasRow(rows, url) THEN rows ELSE Append(rows, [RowOf(e) EXCEPT !.url = url])

\* syncSingleEntry: INSERT when the url has no row, else UPDATE of access_count and
\* last_access (the durable index is modelled to the second)
syncSingleEntry(rows, url, e) ==
    IF HasRow(rows, url)
    THEN [i \in 1..Len(rows) |->
            IF rows[i].url = url
            THEN [rows[i] EXCEPT !.access_count = e.AccessCount,
                                 !.last_access = FormatRFC3339(e.LastAccess)]
            ELSE rows[i]]
    ELSE Append(rows, [RowOf(e) EXCEPT !.url = url])

\* now.Sub(entry.LastAccess) > cacheValidity
Expired(t, e) == t - e.LastAccess > CacheValidity

\* the tick fires: now := time.Now() and the map of lruCache.GetAll()
CleanupScan ==
    /\ cl.pc = "idle"
    /\ phase = "up"
    /\ Resident(lru) # {}
    /\ cl' = [IdleCleanup EXCEPT !.pc = "loop", !.snap = lru.entries,
                                 !.todo = Resident(lru), !.now = now,
                                 !.nreq = nreq, !.idle = AllIdle]
    /\ UNCHANGED <<lru, files, now, hist, db, phase, wk, sy, nreq, boots, atDrain, sm, px, tf, rz, adm, rt>>

\* the loop takes the next key of the map and tests the entry's age and Dirty flag
CleanupCheck(k) ==
    /\ cl.pc = "loop"
    /\ k \in cl.todo
    /\ LET e == lru.node[cl.snap[k]]
       IN  cl' = IF Expired(cl.now, e)
                 THEN [cl EXCEPT !.pc = IF e.Dirty THEN "flush" ELSE "remove",
                                 !.cur = k, !.seen = <<e>>]
                 ELSE [cl EXCEPT !.todo = cl.todo \ {k}, !.snap[k] = NIL]
    /\ lru' = Collect(lru, TaskRoots(wk, sy) \cup SnapHandles(cl'))
    /\ UNCHANGED <<files, now, hist, db, phase, wk, sy, nreq, boots, atDrain, sm, px, tf, rz, adm, rt>>

\* syncSingleEntry(key, entry) of a dirty expired entry; its error is only logged
CleanupFlush(ok) ==
    /\ cl.pc = "flush"
    /\ DbMutexFree
    /\ db' = IF ok THEN syncSingleEntry(db, cl.cur, lru.node[cl.snap[cl.cur]]) ELSE db
    /\ cl' = [cl EXCEPT !.pc = "remove", !.flushed = ok,
                        !.written = ok /\ RowCovers(db', cl.seen[1])]
    /\ UNCHANGED <<lru, files, now, hist, phase, wk, sy, nreq, boots, atDrain, sm, px, tf, rz, adm, rt>>

\* lruCache.Remove(key)
CleanupRemove ==
    /\ cl.pc = "remove"
    /\ LET r == Remove(lru, cl.cur)
           gone == IF lru.entries[cl.cur] # NIL
                   THEN {[entry |-> cl.seen[1], flushed |-> cl.flushed,
                          written |-> cl.written]}
                   ELSE {}
       IN  /\ cl' = [cl EXCEPT !.pc = "loop", !.todo = cl.todo \ {cl.cur},
                               !.snap[cl.cur] = NIL, !.cur = NIL, !.seen = <<>>,
                               !.flushed = FALSE, !.written = FALSE,
                               !.removed = cl.removed \cup gone]
           /\ lru' = Collect(r.cache, TaskRoots(wk, sy) \cup SnapHandles(cl'))
           /\ files' = DeleteFiles(files, r.removed)
    /\ UNCHANGED <<now, hist, db, phase, wk, sy, nreq, boots, atDrain, sm, px, tf, rz, adm, rt>>

\* the loop over the map ends: the tick is complete
CleanupDone ==
    /\ cl.pc = "loop"
    /\ cl.todo = {}
    /\ cl' = [cl EXCEPT !.pc = "done"]
    /\ UNCHANGED <<lru, files, now, hist, db, phase, wk, sy, nreq, boots, atDrain, sm, px, tf, rz, adm, rt>>

\* back to the select, waiting for the next tick
CleanupWait ==
    /\ cl.pc = "done"
    /\ cl' = IdleCleanup
    /\ UNCHANGED <<lru, files, now, hist, db, phase, wk, sy, nreq, boots, atDrain, sm, px, tf, rz, adm, rt>>

\* cleanupMemCache's ticks fire while no request is in flight, and no request arrives
\* before the tick is complete; the runs of syncToDB interleave with both
LookupBetweenTicks(w, key) == cl.pc = "idle" /\ Lookup(w, key)
CleanupScanAlone == AllIdle /\ CleanupScan

NextCleanup ==
    \/ Tick
    \/ \E w \in Workers, key \in Keys : LookupBetweenTicks(w, key)
    \/ \E w \in Workers : ReadCached(w)
    \/ \E w \in Workers : DbLookup(w)
    \/ \E w \in Workers, ok \in BOOLEAN : Fetch(w, ok)
    \/ \E w \in Workers : Store(w)
    \/ \E w \in Workers : HitRecord(w)
    \/ \E w \in Workers : Respond(w)
    \/ \E s \in Syncers : SyncScan(s)
    \/ \E s \in Syncers, ok \in BOOLEAN : SyncTx(s, ok)
    \/ \E s \in Syncers : SyncMarkGet(s)
    \/ \E s \in Syncers : SyncMarkClear(s)
    \/ \E s \in Syncers : SyncReturn(s)
    \/ CleanupScanAlone
    \/ \E k \in Keys : CleanupCheck(k)
    \/ \E ok \in BOOLEAN : CleanupFlush(ok)
    \/ CleanupRemove
    \/ CleanupDone
    \/ CleanupWait

SpecCleanup == Init /\ [][NextCleanup]_vars

\* cleanupMemCache's ticks with the request handlers running at any moment
NextCleanupRace ==
    \/ Tick
    \/ \E w \in Workers, key \in Keys : Lookup(w, key)
    \/ \E w \in Workers : ReadCached(w)
    \/ \E w \in Workers : DbLookup(w)
    \/ \E w \in Workers, ok \in BOOLEAN : Fetch(w, ok)
    \/ \E w \in Workers : Store(w)
    \/ \E w \in Workers : HitRecord(w)
    \/ \E w \in Workers : Respond(w)
    \/ CleanupScan
    \/ \E k \in Keys : CleanupCheck(k)
    \/ \E ok \in BOOLEAN : CleanupFlush(ok)
    \/ CleanupRemove
    \/ CleanupDone
    \/ CleanupWait

SpecCleanupRace == Init /\ [][NextCleanupRace]_vars

(***************************************************************************)
(* The process in normal operation: the request handlers and the runs of   *)
(* syncToDB that syncMemCacheToDB's ticker starts, with no shutdown.       *)
(***************************************************************************)
NextSync ==
    \/ Tick
    \/ \E w \in Workers, key \in Keys : Lookup(w, key)
    \/ \E w \in Workers : ReadCached(w)
    \/ \E w \in Workers : DbLookup(w)
    \/ \E w \in Workers, ok \in BOOLEAN : Fetch(w, ok)
    \/ \E w \in Workers : Store(w)
    \/ \E w \in Workers : HitRecord(w)
    \/ \E w \in Workers : Respond(w)
    \/ \E s \in Syncers : SyncScan(s)
    \/ \E s \in Syncers, ok \in BOOLEAN : SyncTx(s, ok)
    \/ \E s \in Syncers : SyncMarkGet(s)
    \/ \E s \in Syncers : SyncMarkClear(s)
    \/ \E s \in Syncers : SyncReturn(s)

SpecSync == Init /\ [][NextSync]_vars

(***************************************************************************)
(* The StorageManager on its own: any sequence of Store, Get, GetWithLevel *)
(* and Delete, under each configuration of backends, with the goroutines   *)
(* they start running in between.                                          *)
(***************************************************************************)
InitStorage ==
    /\ InitCache
    /\ rz = NoResize
    /\ \E config \in StorageConfigs : sm = NewStorageManager(config)

\* the scheduler runs one of the goroutines
RunSomeTask == \E t \in sm.tasks, ioOk \in BOOLEAN : RunTask(t, ioOk)

NextStorage ==
    \/ \E data \in Blobs, meta \in Metas, ioOk \in BOOLEAN : SMStore(data, meta, ioOk)
    \/ \E op \in {"Get", "GetWithLevel"}, id \in Ids : SMGet(op, id)
    \/ \E id \in Ids : SMDelete(id)
    \/ RunSomeTask

SpecStorage == InitStorage /\ [][NextStorage]_vars

\* the same without Delete: any sequence of Store, Get and GetWithLevel
NextStoreGet ==
    \/ \E data \in Blobs, meta \in Metas, ioOk \in BOOLEAN : SMStore(data, meta, ioOk)
    \/ \E op \in {"Get", "GetWithLevel"}, id \in Ids : SMGet(op, id)
    \/ RunSomeTask

SpecStoreGet == InitStorage /\ [][NextStoreGet]_vars

(***************************************************************************)
(* The key derivation on its own: any sequence of proxy requests.          *)
(***************************************************************************)
NextProxy ==
    \E source \in Sources, viaURLParam \in BOOLEAN, query \in Queries :
        handleImageProxy(source, viaURLParam, query)

SpecProxy == Init /\ [][NextProxy]_vars

(***************************************************************************)
(* resizeImage on its own: one call, with any source and any box.          *)
(***************************************************************************)
InitResize ==
    /\ InitCache
    /\ sm = NewStorageManager(defaultStorageConfig)
    /\ rz \in ResizeCalls

NextResize == \E belowW \in BOOLEAN, belowH \in BOOLEAN : ResizeReturn(belowW, belowH)

SpecResize == InitResize /\ [][NextResize]_vars

(***************************************************************************)
(* The miss path on its own: any sequence of requests that miss.           *)
(***************************************************************************)
NextTransform ==
    \E t \in Transforms, up \in Upstreams, encodeOk \in BOOLEAN, writeOk \in BOOLEAN :
        FetchAndTransform(t, up, encodeOk, writeOk)

SpecTransform == Init /\ [][NextTransform]_vars

(***************************************************************************)
(* Requests one after the other: each request runs from its lookup to its  *)
(* response before the next one starts, and is logged with its outcome.    *)
(***************************************************************************)
\* getFromCache(key) at time t: the lookup in memory with its expiry test and its
\* file read, and the lookup in the durable index when the key is not in memory
getFromCache(c, fs, rows, key, t) ==
    LET h == c.entries[key]
        c1 == Get(c, key, t)
        miss(r, rows1) ==
            [cache |-> Collect(r.cache, {}), files |-> DeleteFiles(fs, r.removed),
             rows |-> rows1, hit |-> FALSE, data |-> 0]
    IN  IF h # NIL
        THEN IF t - c1.node[h].LastAccess > CacheValidity THEN miss(Remove(c1, key), rows)
             ELSE IF fs[c1.node[h].FilePath] > 0
             THEN [cache |-> c1, files |-> fs, rows |-> rows, hit |-> TRUE,
                   data |-> fs[c1.node[h].FilePath]]
             ELSE miss(Remove(c1, key), rows)
        ELSE IF ~HasRow(rows, key) THEN miss([cache |-> c1, removed |-> {}], rows)
        ELSE IF RowFor(rows, key).file_path \in Paths /\ fs[RowFor(rows, key).file_path] > 0
        THEN [cache |-> c1, files |-> fs, rows |-> rows, hit |-> TRUE,
              data |-> fs[RowFor(rows, key).file_path]]
        ELSE miss([cache |-> c1, removed |-> {}], DeleteRow(rows, key))

\* an updateCacheRecord that does not add the entry of a miss
updateCacheRecord_missNotAdded(c, fs, key, isHit, t) ==
    [cache |-> IF isHit THEN Get(c, key, t) ELSE c, files |-> fs]

\* updateCacheRecord(key, ..., isHit) at time t, with the memory cache in use
updateCacheRecord(c, fs, key, isHit, t) ==
    IF isHit THEN [cache |-> Get(c, key, t), files |-> fs]
    ELSE LET r == Put(c, key, NewEntry(key, fs[getCacheFilePath(key)], t),
                      NewHandle(c, {}), t)
         IN  [cache |-> Collect(r.cache, {}), files |-> DeleteFiles(fs, r.removed)]

\* what happens on a miss: the fetch or the transform fails; the image is made and
\* its cache file written; the image is made and os.WriteFile of the cache file fails
MissOutcomes == {"failed", "stored", "unsaved"}

\* handleImageProxy for the key, from getFromCache to the response
Resolve(key, outcome) ==
    /\ phase = "up"
    /\ AllIdle
    /\ nreq < MaxRequests
    /\ nreq' = nreq + 1
    /\ LET g == getFromCache(lru, files, db, key, now)
           made == SourceSize(key)
           withThumb == [g.files EXCEPT ![thumbFilePath(key)] = 1]
           written == [withThumb EXCEPT ![getCacheFilePath(key)] = made]
           u == IF g.hit THEN updateCacheRecord(g.cache, g.files, key, TRUE, now)
                ELSE IF outcome = "stored"
                THEN updateCacheRecord(g.cache, written, key, FALSE, now)
                ELSE IF outcome = "unsaved" THEN [cache |-> g.cache, files |-> withThumb]
                ELSE [cache |-> g.cache, files |-> g.files]
       IN  /\ lru' = u.cache
           /\ files' = u.files
           /\ db' = g.rows
           /\ hist' = Append(hist,
                  [op |-> "Resolve", key |-> key, hit |-> g.hit, fetched |-> ~g.hit,
                   status |-> IF g.hit \/ outcome # "failed" THEN 200 ELSE 502,
                   body |-> IF g.hit THEN g.data
                            ELSE IF outcome # "failed" THEN made ELSE 0,
                   stored |-> ~g.hit /\ outcome = "stored",
                   counted |-> IF g.hit THEN "hit"
                               ELSE IF outcome = "stored" THEN "miss" ELSE "none"])
    /\ UNCHANGED <<now, phase, wk, sy, boots, atDrain, cl, sm, px, tf, rz, adm, rt>>

NextServe ==
    \/ Tick
    \/ \E key \in Keys, outcome \in MissOutcomes : Resolve(key, outcome)

SpecServe == Init /\ [][NextServe]_vars

(***************************************************************************)
(* executeWithRetry and queryWithRetry: one call, attempt by attempt.      *)
(***************************************************************************)
\* fn(query, args...) is called: retries := 0
CallWithRetry(fn) ==
    /\ rt.pc \in {"idle", "returned"}
    /\ rt' = [IdleRetry EXCEPT !.pc = "attempt", !.fn = fn]
    /\ UNCHANGED <<lru, files, now, hist, db, phase, wk, sy, nreq, boots, atDrain, cl, sm, px, tf, rz, adm>>

\* db.Exec or db.Query returns err: nil returns the result, a locked error goes on to
\* the backoff, any other error is returned
Attempt(err) ==
    /\ rt.pc = "attempt"
    /\ rt.retries < MaxAttempts
    /\ rt' = [rt EXCEPT !.errs = Append(rt.errs, err),
                        !.pc = IF err = <<>> THEN "returned"
                               ELSE IF isLockedError(err) THEN "sleep"
                               ELSE "returned"]
    /\ UNCHANGED <<lru, files, now, hist, db, phase, wk, sy, nreq, boots, atDrain, cl, sm, px, tf, rz, adm>>

\* time.Sleep(100*(retries+1) ms), continue: the loop ends when retries reaches 3 and
\* the last err is returned
Backoff ==
    /\ rt.pc = "sleep"
    /\ rt' = [rt EXCEPT !.slept = Append(rt.slept, BackoffMs * (rt.retries + 1)),
                        !.retries = rt.retries + 1,
                        !.pc = IF rt.retries + 1 < MaxAttempts THEN "attempt"
                               ELSE "returned"]
    /\ UNCHANGED <<lru, files, now, hist, db, phase, wk, sy, nreq, boots, atDrain, cl, sm, px, tf, rz, adm>>

NextRetry ==
    \/ \E fn \in {"executeWithRetry", "queryWithRetry"} : CallWithRetry(fn)
    \/ \E err \in DbErrors : Attempt(err)
    \/ Backoff

SpecRetry == Init /\ [][NextRetry]_vars

(***************************************************************************)
(* The admin toggle of the memory cache (handleCacheControl), with the     *)
(* requests arriving one after the other while the memory cache is on and  *)
(* the ticks of the sync loops in between.                                 *)
(***************************************************************************)
\* syncToDB's marking loop: lruCache.Get(entry.URL), cached.Dirty = false
RECURSIVE markSynced(_, _, _)
markSynced(c, toSync, t) ==
    IF toSync = <<>> THEN c
    ELSE LET url == Head(toSync).URL
         IN  markSynced(IF c.entries[url] = NIL THEN c
                        ELSE clearDirty(Get(c, url, t), c.entries[url]),
                        Tail(toSync), t)

\* syncToDB from its first statement to its return, with useMemCache = use, the dirty
\* entries collected in the order toSync, and a transaction that commits (ok) or fails
syncToDB(use, c, rows, toSync, ok, t) ==
    IF ~use \/ toSync = <<>> \/ ~ok THEN [cache |-> c, rows |-> rows]
    ELSE [cache |-> markSynced(c, toSync, t), rows |-> WriteAll(rows, toSync)]

\* handleCacheControl, action=toggle
ToggleMemCache(ok) ==
    /\ phase = "up"
    /\ AllIdle
    /\ adm.toggles < MaxToggles
    /\ \E toSync \in Orders(DirtyCopies(lru)) :
       LET use == ~adm.useMemCache
       IN  IF use
           THEN LET r == loadCacheFromDB(lru, files, db, now)
                IN  /\ lru' = r.cache
                    /\ files' = r.files
                    /\ db' = db
                    /\ adm' = [adm EXCEPT !.useMemCache = use,
                                          !.syncLoops = adm.syncLoops + 1,
                                          !.cleanupLoops = adm.cleanupLoops + 1,
                                          !.toggles = adm.toggles + 1]
           ELSE LET r == syncToDB(use, lru, db, toSync, ok, now)
                IN  /\ lru' = r.cache
                    /\ files' = files
                    /\ db' = r.rows
                    /\ adm' = [adm EXCEPT !.useMemCache = use,
                                          !.toggles = adm.toggles + 1]
    /\ UNCHANGED <<now, hist, phase, wk, sy, nreq, boots, atDrain, cl, sm, px, tf, rz, rt>>

\* the ticker of a syncMemCacheToDB loop fires: syncToDB()
SyncTick(ok) ==
    /\ phase = "up"
    /\ AllIdle
    /\ adm.syncLoops > 0
    /\ \E toSync \in Orders(DirtyCopies(lru)) :
       LET r == syncToDB(adm.useMemCache, lru, db, toSync, ok, now)
       IN  /\ lru' = r.cache
           /\ db' = r.rows
    /\ UNCHANGED <<files, now, hist, phase, wk, sy, nreq, boots, atDrain, cl, sm, px, tf, rz, adm, rt>>

\* a request while the memory cache is on
ResolveInMemory(key, outcome) == adm.useMemCache /\ Resolve(key, outcome)

NextAdmin ==
    \/ Tick
    \/ \E key \in Keys, outcome \in MissOutcomes : ResolveInMemory(key, outcome)
    \/ \E ok \in BOOLEAN : ToggleMemCache(ok)
    \/ \E ok \in BOOLEAN : SyncTick(ok)

SpecAdmin == Init /\ [][NextAdmin]_vars

(***************************************************************************)
(* The LRUCache on its own: any sequence of Put, Get and Remove.           *)
(***************************************************************************)
InitLRU == Init

CallPut(key, size) ==
    /\ Len(hist) < MaxOps
    /\ LET fs == [files EXCEPT ![getCacheFilePath(key)] = size,
                               ![thumbFilePath(key)] = 1]
           r == Put(lru, key, NewEntry(key, size, now), NewHandle(lru, {}), now)
       IN  /\ lru' = Collect(r.cache, {})
           /\ files' = DeleteFiles(fs, r.removed)
    /\ hist' = Append(hist, [op |-> "Put", key |-> key, size |-> size,
                             found |-> lru.entries[key] # NIL])
    /\ UNCHANGED <<now, sysvars>>

CallGet(key) ==
    /\ Len(hist) < MaxOps
    /\ lru' = Get(lru, key, now)
    /\ hist' = Append(hist, [op |-> "Get", key |-> key, size |-> 0,
                             found |-> lru.entries[key] # NIL])
    /\ UNCHANGED <<files, now, sysvars>>

CallRemove(key) ==
    /\ Len(hist) < MaxOps
    /\ LET r == Remove(lru, key)
       IN  /\ lru' = Collect(r.cache, {})
           /\ files' = DeleteFiles(files, r.removed)
    /\ hist' = Append(hist, [op |-> "Remove", key |-> key, size |-> 0,
                             found |-> lru.entries[key] # NIL])
    /\ UNCHANGED <<now, sysvars>>

NextLRU ==
    \/ \E key \in Keys, size \in Sizes : CallPut(key, size)
    \/ \E key \in Keys : CallGet(key)
    \/ \E key \in Keys : CallRemove(key)

SpecLRU == InitLRU /\ [][NextLRU]_vars

(***************************************************************************)
(* Claims about the LRUCache on its own (SpecLRU).                         *)
(***************************************************************************)
LastCall == hist[Len(hist)]
\* every recorded call is a Put, and no key is put twice
OnlyDistinctPuts(h) ==
    /\ \A i \in 1..Len(h) : h[i].op = "Put"
    /\ \A i, j \in 1..Len(h) : i # j => h[i].key # h[j].key
RECURSIVE SumSizes(_)
SumSizes(h) == IF h = <<>> THEN 0 ELSE h[1].size + SumSizes(Tail(h))
\* max_entries + 1 distinct keys were put, nothing else was called, and the byte budget never binds
FilledByOne ==
    /\ Len(hist) = MaxEntries + 1
    /\ OnlyDistinctPuts(hist)
    /\ SumSizes(hist) <= maxBytes

\* C1: after Put of max_entries + 1 distinct keys with no Get in between (byte budget
\* not binding), exactly max_entries entries are resident and the missing one is the
\* key inserted first: a Get of it is a miss, a Get of any other is a hit.
C1_EvictsFirstInserted ==
    FilledByOne =>
        /\ Cardinality(Resident(lru)) = MaxEntries
        /\ lru.entries[hist[1].key] = NIL
        /\ \A i \in 2..Len(hist) : lru.entries[hist[i].key] # NIL

C1_Witness ==
    /\ FilledByOne
    /\ Resident(lru) = {hist[i].key : i \in 2..Len(hist)}
    /\ files[getCacheFilePath(hist[1].key)] = 0

\* C2: after every Put returns (new key or existing key) the number of resident entries
\* is at most max_entries and currentSize is at most the byte budget.
C2_PutKeepsLimits ==
    (Len(hist) > 0 /\ LastCall.op = "Put") =>
        /\ LenEntries(lru) <= MaxEntries
        /\ lru.currentSize <= maxBytes

\* max_entries distinct keys were put, the first of them was read, and one more key was put
TouchedThenFilled(h) ==
    /\ Len(h) = MaxEntries + 2
    /\ OnlyDistinctPuts(SubSeq(h, 1, MaxEntries))
    /\ h[MaxEntries + 1].op = "Get" /\ h[MaxEntries + 1].key = h[1].key
    /\ h[MaxEntries + 2].op = "Put"
    /\ \A i \in 1..MaxEntries : h[i].key # h[MaxEntries + 2].key
    /\ SumSizes(h) <= maxBytes
\* the list `s` without the key `k`
Without(s, k) == SelectSeq(s, LAMBDA x : x # k)
IsGetStep == Len(hist') = Len(hist) + 1 /\ hist'[Len(hist')].op = "Get"

\* C3: Get of a resident key moves the entry to the most-recently-used position (the
\* other entries keep their order), so the next capacity eviction removes another
\* entry: after Put A, Put B, Get A, Put C with max_entries = 2, B is evicted and A and
\* C are resident. Get of a key that is not resident finds nothing and changes nothing.
C3_GetMovesToFront ==
    [][ /\ (IsGetStep /\ hist'[Len(hist')].found) =>
              LET k == hist'[Len(hist')].key
              IN  /\ lru'.head = lru.entries[k]
                  /\ Recency(lru') = <<k>> \o Without(Recency(lru), k)
        /\ (IsGetStep /\ ~hist'[Len(hist')].found) =>
              /\ lru' = lru
              /\ files' = files
        /\ TouchedThenFilled(hist') =>
              /\ lru'.entries[hist'[1].key] # NIL
              /\ lru'.entries[hist'[MaxEntries + 2].key] # NIL
              /\ IF MaxEntries > 1 THEN lru'.entries[hist'[2].key] = NIL ELSE TRUE
              /\ Cardinality(Resident(lru')) = MaxEntries
      ]_vars

C3_Witness ==
    /\ TouchedThenFilled(hist)
    /\ lru.entries[hist[1].key] # NIL
    /\ lru.entries[hist[2].key] = NIL
    /\ lru.head = lru.entries[hist[MaxEntries + 2].key]

(***************************************************************************)
(* Claims about the cache, the durable index and the tasks (Spec, SpecSync).*)
(***************************************************************************)
\* C4: when Put evicts the least-recently-used entry and that entry is dirty, its
\* metadata is in the durable index before the entry and its files are deleted.
C4_EvictionFlushesDirty ==
    \A w \in Workers :
        wk[w].pc = "respond" =>
            \A e \in wk[w].evicted : e.Dirty => RowCovers(db, e)

\* C5: a request served as a cache hit raises the resident entry's access_count by
\* exactly 1.
C5_HitCountsOnce ==
    \A w \in Workers :
        (wk[w].pc = "respond" /\ wk[w].hit) => wk[w].bumps = 1

\* a step of the run s of syncToDB itself
OwnStep(s) == sy'[s].pc # sy[s].pc \/ sy'[s].i # sy[s].i

\* C6: a Sync whose batch fails clears no dirty flag and writes no row: from the
\* failure on, no step of that Sync changes a Dirty field or the durable index, so
\* every entry that was dirty before the Sync is still dirty for the next tick.
C6_FailedSyncKeepsDirty ==
    [][ \A s \in Syncers :
            (sy'[s].res = "failed" /\ OwnStep(s)) =>
                /\ \A h \in Handles : lru'.node[h].Dirty = lru.node[h].Dirty
                /\ db' = db
      ]_vars

C6_Witness ==
    \E s \in Syncers :
        /\ sy[s].pc = "done" /\ sy[s].res = "failed"
        /\ \A i \in 1..Len(sy[s].toSync) :
              /\ lru.entries[sy[s].toSync[i].URL] # NIL
              /\ lru.node[lru.entries[sy[s].toSync[i].URL]].Dirty

\* C7: after a Sync whose transaction commits, with no request running concurrently,
\* the durable index holds the row of every entry that was dirty at the scan, and no
\* resident entry is dirty.
C7_SyncCleansAll ==
    \A s \in Syncers :
        (sy[s].pc = "done" /\ sy[s].res = "ok" /\ sy[s].quiet) =>
            /\ \A i \in 1..Len(sy[s].toSync) :
                  /\ HasRow(db, sy[s].toSync[i].URL)
                  /\ RowFor(db, sy[s].toSync[i].URL) = RowOf(sy[s].toSync[i])
            /\ \A k \in Resident(lru) : ~lru.node[lru.entries[k]].Dirty

C7_Witness ==
    \E s \in Syncers :
        /\ sy[s].pc = "done" /\ sy[s].res = "ok" /\ sy[s].quiet
        /\ Len(sy[s].toSync) > 1
        /\ \A i \in 1..Len(sy[s].toSync) : lru.entries[sy[s].toSync[i].URL] # NIL

\* no cache operation is mid-execution
Quiescent ==
    /\ phase = "up"
    /\ AllIdle
    /\ \A s \in Syncers : sy[s].pc = "idle"

\* C8: whenever no cache operation is mid-execution, a resident entry that is not
\* dirty has a row in the durable index with the same access_count and last_access.
C8_CleanMeansSynced ==
    Quiescent =>
        \A k \in Resident(lru) :
            LET e == lru.node[lru.entries[k]]
            IN  ~e.Dirty =>
                    /\ HasRow(db, k)
                    /\ RowFor(db, k).access_count = e.AccessCount
                    /\ RowFor(db, k).last_access = FormatRFC3339(e.LastAccess)

\* C9: after a successful Sync followed by a restart, every entry that was dirty
\* before the Sync is resident again with the access_count, last_access, created_at,
\* locator and format the Sync scanned (the times compared as the durable index
\* stores them, to the second).
C9_RestartRestores ==
    (phase = "booted" /\ sy["shutdown"].res = "ok") =>
        \A i \in 1..Len(sy["shutdown"].toSync) :
            LET e == sy["shutdown"].toSync[i]
            IN  /\ lru.entries[e.URL] # NIL
                /\ RowOf(lru.node[lru.entries[e.URL]]) = RowOf(e)

\* C10: on a clean shutdown a Sync runs to completion before the process exits, so
\* every entry that was dirty when the in-flight requests had finished has its
\* metadata in the durable index at exit.
C10_ShutdownLosesNothing ==
    (phase = "down" /\ sy["shutdown"].res # "failed") =>
        \A e \in atDrain : RowCovers(db, e)

\* a tick of cleanupMemCache is complete and no request handler ran during it
CleanupTickQuiet == cl.pc = "done" /\ cl.idle /\ cl.nreq = nreq /\ AllIdle

\* what the tick leaves: no resident entry is older than the TTL as of the tick's
\* scan, and the files of every removed entry are gone
CleanupLeaves ==
    /\ \A k \in Resident(lru) : ~Expired(cl.now, lru.node[lru.entries[k]])
    /\ \A r \in cl.removed :
          \A f \in EntryFiles(r.entry) : files[f] = 0

LastIsGet == sm.last.op \in {"Get", "GetWithLevel"}
\* the backends that hold the id
Holding(s, id) == {i \in 1..Len(s.backends) : TierGet(s, s.backends[i], id) # NoBlob}

\* C12: Store attempts the tiers strictly from slowest to fastest, the slowest
\* configured tier first, and a faster tier is given the data only after some slower
\* tier has accepted it (by the goroutine, after Store has chosen that tier).
C12_SlowestFirst ==
    /\ sm.last.op = "Store" =>
          LET log == sm.last.log
          IN  /\ log[1].tier = Len(sm.backends)
              /\ \A k \in 2..Len(log) : log[k].tier < log[k - 1].tier
              /\ \A k \in 2..Len(log) : \E m \in 1..(k - 1) : log[m].ok
    /\ \A t \in sm.tasks : t.kind = "promote" => t.j < t.from

\* C13: in every reachable state of the tiered store under Store and Get (with
\* failing tiers, custom ids and completed back-fills), every id a faster tier holds
\* is also held by the slowest configured tier, with identical bytes.
C13_SlowestHoldsAll ==
    \A id \in Ids :
        \A j \in 1..(Len(sm.backends) - 1) :
            TierGet(sm, sm.backends[j], id) # NoBlob =>
                TierGet(sm, sm.backends[Len(sm.backends)], id) = TierGet(sm, sm.backends[j], id)

\* C14: when the back-fill started by a Get (or GetWithLevel) that hit at tier i > 0
\* has run to completion and every faster tier accepted the write, every tier j < i
\* holds the same bytes under the same id, for content-hash ids and custom ids alike.
C14_BackfillReachesFaster ==
    (sm.last.op = "Task" /\ sm.last.kind = "backfill" /\ sm.last.complete
        /\ sm.last.accepted) =>
        \A j \in 1..(sm.last.from - 1) :
            TierGet(sm, sm.backends[j], sm.last.id) = sm.last.data

C19_KeyKeepsItsBytes ==
    (LastIsGet /\ sm.last.ok /\ sm.first[sm.last.id] # NoBlob) =>
        sm.last.data = sm.first[sm.last.id]

(***************************************************************************)
(* Claims about the proxy's cache key (SpecProxy).                         *)
(***************************************************************************)
\* the parameters of a request that are not given with their default value, as a set
NonDefault(query) ==
    {query[i] : i \in 1..Len(query)}
        \ {<<"q", <<8, 0>> >>, <<"mode", "fit">>, <<"format", "webp">>}

\* C20: two requests for the same URL that differ only in default-valued parameters
\* being explicit or omitted (q=80, mode=fit, format=webp), or in the order of their
\* parameters, derive the same cache key.
C20_KeyIgnoresDefaultsAndOrder ==
    [][(/\ px.ok /\ px'.ok
        /\ px.source = px'.source /\ px.viaURLParam = px'.viaURLParam
        /\ NonDefault(px.query) = NonDefault(px'.query)) =>
           px.key = px'.key]_vars

\* C21: two requests whose forwarded source URL differs, or whose effective transform
\* parameters (format, w, h, q, mode) differ, never derive the same cache key.
C21_KeyIdentifiesSourceAndTransform ==
    [][(/\ px.ok /\ px'.ok
        /\ (px.clean # px'.clean \/ px.transform # px'.transform)) =>
           px.key # px'.key]_vars

(***************************************************************************)
(* Claims about a lookup in the cache (Spec, SpecSync).                    *)
(***************************************************************************)
\* the request handler w is the only one at work
OnlyWorker(w) == \A v \in Workers \ {w} : wk[v].pc = "idle"

\* C25: a lookup that finds metadata for its key (a resident entry, or else a row of
\* the durable index) whose file is missing is a miss, and afterwards neither the
\* cache nor the durable index has metadata for the key.
C25_MissingFileHeals ==
    [][\A w \in Workers :
          LET key == wk[w].key
              inMemory == wk[w].pc = "read" /\ files[lru.node[wk[w].h].FilePath] = 0
              inIndex == /\ wk[w].pc = "dbLookup"
                         /\ HasRow(db, key)
                         /\ files[RowFor(db, key).file_path] = 0
          IN  (OnlyWorker(w) /\ (inMemory \/ inIndex) /\ wk'[w] # wk[w]) =>
                  /\ wk'[w].pc = "fetch"
                  /\ lru'.entries[key] = NIL
                  /\ ~HasRow(db', key)]_vars

\* C30: a lookup of a resident entry whose last access is older than the validity
\* period is a miss and removes the entry.
C30_ExpiredLookupMisses ==
    [][\A w \in Workers, key \in Keys :
          (/\ wk[w].pc = "idle" /\ wk'[w].pc # "idle" /\ wk'[w].key = key
           /\ lru.entries[key] # NIL
           /\ now - lru.node[lru.entries[key]].LastAccess > CacheValidity) =>
              (wk'[w].pc = "fetch" /\ lru'.entries[key] = NIL)]_vars

\* C29: a task reads or writes the cache's map, list, byte counter and the mutable
\* fields of its entries only while it holds the cache's exclusive lock; here for the
\* writes of a run of syncToDB.
C29_CacheTouchedUnderLock ==
    [][\A s \in Syncers :
          ((sy'[s].pc # sy[s].pc \/ sy'[s].i # sy[s].i) /\ lru' # lru) =>
              cacheLock(sy[s].pc) = "exclusive"]_vars

(***************************************************************************)
(* Claims about resizeImage (SpecResize).                                  *)
(***************************************************************************)
\* C28: for every source size and every requested box, resizeImage in mode fit yields
\* width <= w and height <= h; in modes fill and stretch exactly w x h; in mode pad
\* exactly w x h with every pixel outside the centred scaled image opaque white.  When
\* one of w, h is missing it is derived in proportion and the same holds for that box.
C28_ResizeKeepsToBox ==
    (rz.pc = "done" /\ (rz.targetWidth > 0 \/ rz.targetHeight > 0)) =>
        /\ rz.targetWidth > 0 => rz.box.w = rz.targetWidth
        /\ rz.targetHeight > 0 => rz.box.h = rz.targetHeight
        /\ rz.targetWidth = 0 =>
              rz.box.w = (rz.origWidth * rz.targetHeight) \div rz.origHeight
        /\ rz.targetHeight = 0 =>
              rz.box.h = (rz.origHeight * rz.targetWidth) \div rz.origWidth
        /\ rz.mode = "fit" => (rz.img.w <= rz.box.w /\ rz.img.h <= rz.box.h)
        /\ rz.mode \in {"fill", "stretch", "pad"} =>
              (rz.img.w = rz.box.w /\ rz.img.h = rz.box.h)
        /\ rz.mode = "pad" =>
              /\ rz.inner.x >= 0 /\ rz.inner.x + rz.inner.w <= rz.box.w
              /\ rz.inner.y >= 0 /\ rz.inner.y + rz.inner.h <= rz.box.h
              /\ rz.inner.x <= (rz.box.w - rz.inner.w) - rz.inner.x
              /\ (rz.box.w - rz.inner.w) - rz.inner.x <= rz.inner.x + 1
              /\ \A xy \in DOMAIN rz.img.pix :
                    (\/ xy[1] < rz.inner.x \/ xy[1] >= rz.inner.x + rz.inner.w
                     \/ xy[2] < rz.inner.y \/ xy[2] >= rz.inner.y + rz.inner.h) =>
                        rz.img.pix[xy] = "white"

C28_Witness ==
    /\ rz.pc = "done" /\ rz.mode = "pad"
    /\ rz.origWidth = 2 /\ rz.origHeight = 1
    /\ rz.targetWidth = 2 /\ rz.targetHeight = MaxDim
    /\ \E xy \in DOMAIN rz.img.pix : rz.img.pix[xy] = "white"
    /\ \E xy \in DOMAIN rz.img.pix : rz.img.pix[xy] = "image"

(***************************************************************************)
(* Claims about the miss path (SpecTransform).                             *)
(***************************************************************************)
\* C24: the status answered for an upstream failure (network error, upstream status
\* other than 200) is never the status answered for an internal failure (body read,
\* encode).
C24_UpstreamDistinctFromInternal ==
    [][(tf.cause = "upstream" /\ tf'.cause = "internal") => tf.status # tf'.status]_vars

\* C26: for a multi-frame source requested with no resize, the output has all the
\* frames of the source, whether format is omitted, webp or original.
C26_AnimationKept ==
    (/\ tf.status = 200
     /\ tf.upstream.img.frames > 1
     /\ tf.request.targetWidth = 0 /\ tf.request.targetHeight = 0
     /\ tf.request.requestedFormat \in {"", "webp", "original"}) =>
        tf.body.frames = tf.upstream.img.frames

\* C27: for a WebP source, which the codec cannot decode: with no resize requested the
\* response is the source bytes as they are; with a resize requested, for every value
\* of format, the request fails with a client-error status, no unresized image is
\* returned and nothing is cached.
C27_WebPSourceResizeRefused ==
    (tf.status # 0 /\ tf.upstream.kind = "image" /\ tf.upstream.img.format = "webp") =>
        IF tf.request.targetWidth = 0 /\ tf.request.targetHeight = 0
        THEN /\ tf.status = 200
             /\ tf.body.kind = "raw" /\ tf.body.of = tf.upstream.img.name
        ELSE /\ tf.status >= 400 /\ tf.status < 500
             /\ tf.body = NoBody
             /\ ~tf.stored

(***************************************************************************)
(* Claims about requests one after the other (SpecServe) and about a       *)
(* request that fails (Spec).                                              *)
(***************************************************************************)
\* request i missed and was answered with an image, and request i + 1 is for its key
MissThenSame(i) ==
    /\ hist[i].key = hist[i + 1].key
    /\ ~hist[i].hit /\ hist[i].status = 200

\* request i + 1 is a hit with no fetch and the body of request i
SecondIsHit(i) ==
    /\ hist[i].fetched
    /\ hist[i + 1].hit /\ hist[i + 1].counted = "hit"
    /\ ~hist[i + 1].fetched
    /\ hist[i + 1].status = 200 /\ hist[i + 1].body = hist[i].body

C23_FailureLeavesNothing ==
    [][\A w \in Workers :
          (OnlyWorker(w) /\ wk[w].pc = "fetch" /\ wk'[w].pc = "respond") =>
              /\ lru'.entries[wk[w].key] = NIL
              /\ ~HasRow(db', wk[w].key)
              /\ files'[getCacheFilePath(wk[w].key)] = 0]_vars

(***************************************************************************)
(* Claims about the structure of the LRUCache (SpecLRU).                   *)
(***************************************************************************)
\* the handles met from h following next (at most n of them)
RECURSIVE HandlesFrom(_, _, _)
HandlesFrom(c, h, n) ==
    IF h = NIL \/ n = 0 THEN <<>>
    ELSE <<h>> \o HandlesFrom(c, c.node[h].next, n - 1)

\* the sum of the Size fields of the entries of the keys of S
RECURSIVE BytesOf(_, _)
BytesOf(c, S) ==
    IF S = {} THEN 0
    ELSE LET k == CHOOSE x \in S : TRUE
         IN  c.node[c.entries[k]].Size + BytesOf(c, S \ {k})

\* C38: after any sequence of Put, Get and Remove the recency list is a well-formed
\* doubly-linked list over the map's entries: the traversal from head by next visits
\* every map entry exactly once and ends at tail, head.prev and tail.next are nil,
\* prev mirrors next, and head and tail are nil exactly when the map is empty.
C38_ListWellFormed ==
    LET l == HandlesFrom(lru, lru.head, NumHandles + 1)
    IN  /\ Len(l) = LenEntries(lru)
        /\ {l[i] : i \in 1..Len(l)} = {lru.entries[k] : k \in Resident(lru)}
        /\ \A i \in 1..Len(l) : lru.entries[lru.node[l[i]].URL] = l[i]
        /\ \A i \in 1..Len(l) :
              lru.node[l[i]].prev = (IF i = 1 THEN NIL ELSE l[i - 1])
        /\ (lru.head = NIL) <=> (Resident(lru) = {})
        /\ (lru.tail = NIL) <=> (Resident(lru) = {})
        /\ Len(l) > 0 => (l[Len(l)] = lru.tail /\ lru.node[lru.tail].next = NIL)

C38_Witness ==
    /\ Len(hist) = MaxOps
    /\ LenEntries(lru) = 1
    /\ \E i \in 1..Len(hist) : hist[i].op = "Remove" /\ hist[i].found
    /\ \E i \in 1..Len(hist) : hist[i].op = "Get" /\ hist[i].found

\* C39: after any sequence of Put (new or existing key), eviction and Remove,
\* currentSize is the sum of the Size fields of the resident entries (0 when empty).
C39_CurrentSizeIsSum == lru.currentSize = BytesOf(lru, Resident(lru))

C39_Witness ==
    /\ Len(hist) > 0
    /\ LastCall.op = "Put" /\ LastCall.found
    /\ LenEntries(lru) = MaxEntries
    /\ lru.currentSize = maxBytes

(***************************************************************************)
(* Claims about MemoryStorage's accounting and about Delete (SpecStorage). *)
(***************************************************************************)
\* the sum of the lengths of the byte slices the map holds under the ids of S
RECURSIVE HeldBytes(_, _)
HeldBytes(m, S) ==
    IF S = {} THEN 0
    ELSE LET i == CHOOSE x \in S : TRUE
         IN  BlobLen(m.data[i]) + HeldBytes(m, S \ {i})

\* C40: after any sequence of MemoryStorage Store and Delete, currSize is the sum of
\* the lengths of the byte slices held (and so never above maxSize).
C40_CurrSizeIsSum ==
    /\ sm.mem.currSize = HeldBytes(sm.mem, Ids)
    /\ sm.mem.currSize <= MemoryMaxSize

\* C35: once Delete(id) has returned success and no Store or Get is issued afterwards,
\* Exists(id) stays false: a goroutine started by an earlier Store or Get does not
\* put id back into a faster tier.
C35_DeleteIsFinal ==
    [][(sm.last.op = "Delete" /\ sm.last.ok /\ sm'.last.op = "Task") =>
          ~Exists(sm', sm.last.id)]_vars

(***************************************************************************)
(* Claims about what a Sync, a Cleanup and a load leave alone.             *)
(***************************************************************************)
\* syncer s takes the step
SyncerSteps(s) == sy'[s].pc # sy[s].pc \/ sy'[s].i # sy[s].i

\* C33: a step of syncToDB changes no resident entry's AccessCount or LastAccess and
\* leaves the recency order as it is (its only effect in memory is on Dirty flags).
C33_SyncLeavesRecency ==
    [][\A s \in Syncers :
          SyncerSteps(s) =>
              /\ Recency(lru') = Recency(lru)
              /\ \A k \in Resident(lru) :
                    /\ lru'.entries[k] = lru.entries[k]
                    /\ lru'.node[lru.entries[k]].AccessCount
                          = lru.node[lru.entries[k]].AccessCount
                    /\ lru'.node[lru.entries[k]].LastAccess
                          = lru.node[lru.entries[k]].LastAccess]_vars

\* C34: when Cleanup removes an entry and deletes its file, the entry's LastAccess is
\* older than the validity period at that moment, whatever the request handlers did
\* between Cleanup's scan, its flush and its Remove.
C34_CleanupSparesRefreshed ==
    [][(cl.pc = "remove" /\ cl'.pc = "loop" /\ lru.entries[cl.cur] # NIL) =>
          Expired(now, lru.node[lru.entries[cl.cur]])]_vars

(***************************************************************************)
(* Claims about the admin toggle (SpecAdmin).                              *)
(***************************************************************************)
\* the toggle call that switches the memory cache off / on takes the step
TogglesOff == adm.useMemCache /\ ~adm'.useMemCache
TogglesOn == ~adm.useMemCache /\ adm'.useMemCache

\* C31: when the toggle call returns with enabled = false, every entry that was dirty
\* before the call has been written to the durable index.
C31_DisableSyncs ==
    [][TogglesOff =>
          \A k \in Resident(lru) :
              lru.node[lru.entries[k]].Dirty => RowCovers(db', lru.node[lru.entries[k]])]_vars

\* C36: at every moment at most one periodic Sync loop and at most one periodic
\* Cleanup loop are running, after any sequence of toggles.
C36_OneLoopEach == adm.syncLoops <= 1 /\ adm.cleanupLoops <= 1

\* C37: loading the durable index into the LRUCache deletes no file and changes
\* nothing of an entry that is already resident.
C37_LoadKeepsFilesAndEntries ==
    [][TogglesOn =>
          /\ \A p \in Paths : files[p] > 0 => files'[p] = files[p]
          /\ \A k \in Resident(lru) :
                /\ lru'.entries[k] = lru.entries[k]
                /\ EntryCopy(lru'.node[lru.entries[k]]) = EntryCopy(lru.node[lru.entries[k]])
                /\ lru'.node[lru.entries[k]].Dirty = lru.node[lru.entries[k]].Dirty
                /\ lru'.node[lru.entries[k]].Size = lru.node[lru.entries[k]].Size]_vars

(***************************************************************************)
(* Claims about the retry loops (SpecRetry).                               *)
(***************************************************************************)
\* the errors of a locked database
LockedErrors ==
    {<<"database", "is", "locked">>, <<"database", "table", "is", "locked">>,
     <<"database", "is", "locked", "(5)", "(SQLITE_BUSY)">>}

\* C32: executeWithRetry and queryWithRetry make at most 3 attempts; they return on the
\* first success, go on (after a backoff that grows with the attempt) only after a
\* locked error, return any other error at once, and return the last error when all
\* 3 attempts hit a locked error.
C32_RetryBounded ==
    /\ Len(rt.errs) <= MaxAttempts
    /\ \A i \in 1..(Len(rt.errs) - 1) : rt.errs[i] \in LockedErrors
    /\ \A i \in 1..Len(rt.slept) :
          /\ rt.slept[i] = BackoffMs * i
          /\ i <= Len(rt.errs) /\ rt.errs[i] \in LockedErrors
    /\ rt.pc = "returned" =>
          /\ Len(rt.errs) >= 1
          /\ LET last == rt.errs[Len(rt.errs)]
             IN  \/ last = <<>> /\ Len(rt.slept) = Len(rt.errs) - 1
                 \/ /\ last # <<>> /\ last \notin LockedErrors
                    /\ Len(rt.slept) = Len(rt.errs) - 1
                 \/ /\ last \in LockedErrors
                    /\ Len(rt.errs) = MaxAttempts /\ Len(rt.slept) = MaxAttempts
    /\ rt.pc = "attempt" => Len(rt.errs) = rt.retries /\ rt.retries < MaxAttempts

C32_Witness ==
    /\ rt.pc = "returned"
    /\ Len(rt.errs) = MaxAttempts
    /\ rt.errs[1] = <<"database", "table", "is", "locked">>
    /\ rt.errs[MaxAttempts] = <<"database", "is", "locked", "(5)", "(SQLITE_BUSY)">>
    /\ rt.slept = <<BackoffMs, 2 * BackoffMs, 3 * BackoffMs>>

====
